---- MODULE Spec2Model ----
(***************************************************************************)
(* A model of the admission-control webhook framework:                     *)
(*   - AdmissionHandler.ServeHTTP / handleAdmissionRequest (handler),      *)
(*   - the built-in AdmitFuncs (admit_funcs).                              *)
(* Spec      : one AdmissionHandler serving requests one after another,    *)
(*             each request handled step by step.                          *)
(* SpecAdmit : the built-in AdmitFuncs applied to bounded inputs.          *)
(*   - AdmissionServer: NewServer, Run, Stop (server),                     *)
(*   - LoggingMiddleware (request_logger).                                 *)
(* SpecServer, SpecServerFair : one AdmissionServer, its listener          *)
(*             goroutine, signals, cancellation and Stop, interleaved.     *)
(* SpecMiddleware : a handler that may panic, wrapped by the middleware.   *)
(* SpecRace  : concurrent ServeHTTP calls on one AdmissionHandler.         *)
(* SpecFrame : concurrent invocations of one built-in AdmitFunc.           *)
(***************************************************************************)
EXTENDS Integers, Sequences, FiniteSets, TLC

VARIABLES
    ah,              \* the AdmissionHandler's fields LimitBytes, deserializer
    pc,              \* position of the request being served
    r,               \* the inbound *http.Request: its Body and whether reading it fails
    w,               \* the http.ResponseWriter: header set, WriteHeader and Write calls
    body,            \* bytes read from the limited reader
    incomingReview,  \* the decoded inbound AdmissionReview
    admitted,        \* what the AdmitFunc returned: (response, error)
    reviewResponse,  \* the response handed to json.Marshal on the success path
    err,             \* the error handleAdmissionRequest returns (None = nil)
    logger,          \* entries written to ah.Logger while serving this request
    steps,           \* the steps this request went through, in order
    marshalFailed,   \* which json.Marshal calls of this request failed
    afIn,            \* the built-in AdmitFunc call being evaluated (SpecAdmit)
    afOut,           \* and what it returned
    as,              \* the *AdmissionServer NewServer returned (None = nil)
    nsOut,           \* what NewServer returned: (server, error)
    srv,             \* the *http.Server: TLSConfig, inShutdown, listening, inFlight
    slog,            \* messages written to the server's logger
    ctxDone,         \* whether the context given to Run is cancelled
    run,             \* Run: its position and the error it returned
    lis,             \* the listener goroutine of Run: its position and its error
    chans,           \* sigChan and errs: made, closed, buffered signal, Notify
    shut,            \* the calls of as.shutdown, by caller ("run", "stop")
    panics,          \* channels a send on which panicked (send on closed channel)
    listenAgain,     \* result of a later ListenAndServe on the same *http.Server
    signals,         \* number of SIGINT/SIGTERM delivered to the process
    mw,              \* LoggingMiddleware serving one request (SpecMiddleware)
    race,            \* concurrent ServeHTTP calls on one handler (SpecRace)
    frame            \* concurrent invocations of one AdmitFunc (SpecFrame)

vars == <<ah, pc, r, w, body, incomingReview, admitted, reviewResponse, err,
          logger, steps, marshalFailed, afIn, afOut,
          as, nsOut, srv, slog, ctxDone, run, lis, chans, shut, panics, listenAgain,
          signals, mw, race, frame>>

handlerVars == <<ah, pc, r, w, body, incomingReview, admitted, reviewResponse,
                 err, logger, steps, marshalFailed>>

admitVars == <<afIn, afOut>>

serverVars == <<as, nsOut, srv, slog, ctxDone, run, lis, chans, shut, panics,
                listenAgain, signals>>

\* the variables the handler and the AdmitFunc calls never touch
otherVars == <<serverVars, mw, race, frame>>

\* the variables the server never touches
nonServerVars == <<handlerVars, admitVars, mw, race, frame>>

nonMiddlewareVars == <<handlerVars, admitVars, serverVars, race, frame>>

nonFrameVars == <<handlerVars, admitVars, serverVars, mw, race>>

\* everything but the handler's fields and the concurrent requests
nonRaceVars == <<pc, r, w, body, incomingReview, admitted, reviewResponse, err, logger, steps,
                 marshalFailed, admitVars, serverVars, mw, frame>>

----------------------------------------------------------------------------
(* Bounds of the model *)

\* number of bytes that may follow the JSON document in a request body
MaxPad == 2
\* largest explicitly configured LimitBytes
MaxLimit == 4
\* longest ignoredNamespaces list
MaxIgnored == 2
\* largest number of requests in flight on the server
MaxInFlight == 1
\* largest number of SIGINT/SIGTERM delivered to the process
MaxSignals == 1

MaxWrites == 2

MaxRequests == 2

MaxInvocations == 2

(* Program constants *)

DefaultLimitBytes == 1073741824
StatusOK == 200
StatusInternalServerError == 500
\* time.Second * 15, in seconds
defaultGracePeriod == 15

----------------------------------------------------------------------------
(* Go values *)

\* a nil pointer / nil error, and a non-nil one
None == <<>>
Some(x) == <<x>>

Min(a, b) == IF a < b THEN a ELSE b

\* fmt's %t
FormatBool(b) == IF b THEN "true" ELSE "false"

----------------------------------------------------------------------------
(* Wire bytes of an inbound body.  One element of the sequence is one unit   *)
(* of the byte count; the request member is carried as one unit.            *)

LBrace == [t |-> "{", v |-> None]
RBrace == [t |-> "}", v |-> None]
Space == [t |-> " ", v |-> None]
Junk == [t |-> "x", v |-> None]
RequestMember(req) == [t |-> "request", v |-> Some(req)]
ObjectBytes(obj) == [t |-> "object", v |-> Some(obj)]

UIDs == {"", "uid-1"}

\* admission.AdmissionRequest as the handler sees it
HandlerRequests == {[UID |-> u, Kind |-> "Service", Object |-> None] : u \in UIDs}

Pads == UNION {[1..n -> {Space, Junk}] : n \in 0..MaxPad}

Documents ==
    {<<>>, <<Junk>>, <<LBrace>>, <<LBrace, RBrace>>}
        \cup {<<LBrace, RequestMember(q), RBrace>> : q \in HandlerRequests}

Bodies == {d \o p : d \in Documents, p \in Pads}

LimitChoices == (-1)..MaxLimit

----------------------------------------------------------------------------
(* admission.AdmissionReview / AdmissionResponse and their JSON form *)

EmptyResponse == [UID |-> "", Allowed |-> FALSE, Result |-> None, Patch |-> <<>>, PatchType |-> None]

NewReview(resp) == [Kind |-> "AdmissionReview", APIVersion |-> "admission.k8s.io/v1", Request |-> None, Response |-> Some(resp)]

Member(cond, k, val) == IF cond THEN k :> val ELSE <<>>

Base64(bytes) == [enc |-> "base64", data |-> bytes]

MarshalStatus(s) == Member(s.Message # "", "message", s.Message)

MarshalResponse(resp) ==
    ("uid" :> resp.UID) @@ ("allowed" :> resp.Allowed)
        @@ Member(resp.Result # None, "status", MarshalStatus(resp.Result[1]))
        @@ Member(Len(resp.Patch) > 0, "patch", Base64(resp.Patch))
        @@ Member(resp.PatchType # None, "patchType", resp.PatchType[1])

JSONMarshal(review) ==
    Member(review.Kind # "", "kind", review.Kind)
        @@ Member(review.APIVersion # "", "apiVersion", review.APIVersion)
        @@ Member(review.Response # None, "response", MarshalResponse(review.Response[1]))

Field(obj, k, default) == IF k \in DOMAIN obj THEN obj[k] ELSE default

UnmarshalResponse(o) ==
    [UID |-> Field(o, "uid", ""),
     Allowed |-> Field(o, "allowed", FALSE),
     Result |-> IF "status" \in DOMAIN o THEN Some([Message |-> Field(o["status"], "message", "")]) ELSE None,
     Patch |-> IF "patch" \in DOMAIN o THEN o["patch"].data ELSE <<>>,
     PatchType |-> IF "patchType" \in DOMAIN o THEN Some(o["patchType"]) ELSE None]

JSONUnmarshal(o) ==
    [Kind |-> Field(o, "kind", ""),
     APIVersion |-> Field(o, "apiVersion", ""),
     Request |-> None,
     Response |-> IF "response" \in DOMAIN o THEN Some(UnmarshalResponse(o["response"])) ELSE None]

----------------------------------------------------------------------------
(* errors *)

AdmissionError(allowed, message, debug) == [type |-> "AdmissionError", Allowed |-> allowed, Message |-> message, Debug |-> debug]

PlainError(message) == [type |-> "error", Allowed |-> FALSE, Message |-> message, Debug |-> ""]

ErrorStringBare(e) == e.Message

\* AdmissionError.Error(); any other error's text is its message
ErrorString(e) ==
    IF e.type = "AdmissionError"
    THEN "admission error: " \o e.Message \o " (allowed: " \o FormatBool(e.Allowed) \o ")"
    ELSE e.Message

----------------------------------------------------------------------------
(* AdmissionHandler: the pieces of ServeHTTP and handleAdmissionRequest *)

\* io.LimitReader(r.Body, ah.LimitBytes) read to its end by ioutil.ReadAll:
\* the reader reports EOF after n bytes, whatever follows them in the body
LimitReader(b, n) == SubSeq(b, 1, Min(Len(b), n))

RECURSIVE TrimRight(_)
TrimRight(s) == IF Len(s) > 0 /\ s[Len(s)] = Space THEN TrimRight(SubSeq(s, 1, Len(s) - 1)) ELSE s

\* ah.deserializer.Decode(body, nil, &incomingReview): one JSON object,
\* optionally followed by white space; bytes that are white space only are
\* not recognised as JSON, the YAML decoder reads them as null, and null
\* decodes into the zero review; anything else is a decode error
Decode(b) ==
    LET d == TrimRight(b)
    IN  IF d = <<LBrace, RBrace>> \/ d = <<>>
        THEN [ok |-> TRUE, review |-> [Request |-> None, Response |-> None]]
        ELSE IF Len(d) = 3 /\ d[1] = LBrace /\ d[2].t = "request" /\ d[3] = RBrace
        THEN [ok |-> TRUE, review |-> [Request |-> d[2].v, Response |-> None]]
        ELSE [ok |-> FALSE, review |-> [Request |-> None, Response |-> None]]

RequestMissingNever(review) == FALSE

RequestMissing(review) == review.Request = None

AdmitFuncFailedKeepAllowed(resp, e) ==
    AdmissionError(resp # None /\ resp[1].Allowed, e, "the AdmitFunc returned an error")

\* the AdmitFunc returned (resp, err) with err.Error() = e
AdmitFuncFailed(resp, e) == AdmissionError(FALSE, e, "the AdmitFunc returned an error")

WithUIDFresh(resp, uid) == [EmptyResponse EXCEPT !.UID = uid, !.Allowed = resp.Allowed]

\* reviewResponse.UID = incomingReview.Request.UID
WithUID(resp, uid) == [resp EXCEPT !.UID = uid]

\* the outgoingReview ServeHTTP fills in for a non-nil error
ErrorReview(e) ==
    NewReview([EmptyResponse EXCEPT
                 !.Allowed = IF e.type = "AdmissionError" THEN e.Allowed ELSE FALSE,
                 !.Result = Some([Message |-> ErrorString(e)])])

\* ah.Logger.Log for an error that is an AdmissionError
LogError(e) ==
    IF e.type = "AdmissionError"
    THEN <<[msg |-> e.Message, debug |-> e.Debug]>>
    ELSE <<>>

NewResponseWriter == [contentType |-> "", status |-> <<>>, body |-> <<>>]

WriteHeader(rw, code) == [rw EXCEPT !.status = Append(@, code)]

Write(rw, bytes) == [rw EXCEPT !.body = Append(@, bytes)]

RespondErrorBare(rw, e, ok) == WriteHeader(rw, StatusInternalServerError)

RespondErrorNoReturn(rw, e, ok) ==
    IF ok
    THEN Write(WriteHeader(rw, StatusOK), JSONMarshal(ErrorReview(e)))
    ELSE Write(WriteHeader(WriteHeader(rw, StatusInternalServerError), StatusOK), <<>>)

\* what ServeHTTP writes for error e; ok: json.Marshal(outgoingReview) succeeded
RespondError(rw, e, ok) ==
    IF ok
    THEN Write(WriteHeader(rw, StatusOK), JSONMarshal(ErrorReview(e)))
    ELSE WriteHeader(rw, StatusInternalServerError)

\* what handleAdmissionRequest writes on success
RespondReview(rw, resp) == Write(WriteHeader(rw, StatusOK), JSONMarshal(NewReview(resp)))

----------------------------------------------------------------------------
(* What a pluggable AdmitFunc may return *)

AdmitResponses ==
    [UID : {"", "stale"},
     Allowed : BOOLEAN,
     Result : {None, Some([Message |-> ""]), Some([Message |-> "fine"])},
     Patch : {<<>>, <<"op">>},
     PatchType : {None, Some("JSONPatch")}]

AdmitErrors == {"admission not allowed", "Ingress objects cannot be deployed to this cluster"}

AdmitOutcomes ==
    [resp : {None} \cup {Some(x) : x \in AdmitResponses},
     err : {None} \cup {Some(m) : m \in AdmitErrors}]

NoOutcome == [resp |-> None, err |-> None]

NoReview == [Request |-> None, Response |-> None]

----------------------------------------------------------------------------
(* Initial state: a handler as constructed by its user, no request yet *)

Init ==
    /\ ah \in [LimitBytes : LimitChoices, deserializer : {FALSE}]
    /\ pc = "idle"
    /\ r = [Body |-> <<>>, readFails |-> FALSE]
    /\ w = NewResponseWriter
    /\ body = <<>>
    /\ incomingReview = NoReview
    /\ admitted = NoOutcome
    /\ reviewResponse = None
    /\ err = None
    /\ logger = <<>>
    /\ steps = <<>>
    /\ marshalFailed = {}
    /\ afIn = None
    /\ afOut = None
    /\ as = None
    /\ nsOut = None
    /\ srv = [Handler |-> None, TLSConfig |-> None, inShutdown |-> FALSE,
              listening |-> FALSE, inFlight |-> 0]
    /\ slog = {}
    /\ ctxDone = FALSE
    /\ run = [pc |-> "idle", result |-> None]
    /\ lis = [pc |-> "idle", err |-> None]
    /\ chans = [made |-> FALSE, notify |-> FALSE, sig |-> 0, sigClosed |-> FALSE, errsClosed |-> FALSE]
    /\ shut = [c \in {"run", "stop"} |-> [pc |-> "idle", elapsed |-> 0, result |-> None, gaveUp |-> FALSE]]
    /\ panics = {}
    /\ listenAgain = None
    /\ signals = 0
    /\ mw = [pc |-> "idle", method |-> "",
             under |-> [status |-> None, writes |-> 0],
             wrapped |-> [status |-> 0, wroteHeader |-> FALSE],
             log |-> <<>>, panicked |-> FALSE, panicValue |-> None, statusAtPanic |-> None]
    /\ race = [pcs |-> [i \in 1..MaxRequests |-> "idle"],
               writes |-> [deserializer |-> 0, LimitBytes |-> 0],
               dataStored |-> FALSE,
               outcome |-> [i \in 1..MaxRequests |-> None]]
    /\ frame = [fn |-> "", mem |-> <<>>, mem0 |-> <<>>, overlapped |-> FALSE,
                inv |-> [i \in 1..MaxInvocations |->
                            [pc |-> "idle", order |-> <<>>, obj |-> None, idx |-> 0,
                             result |-> None]]]

----------------------------------------------------------------------------
(* Actions of the handler *)

\* the HTTP server hands a request and a fresh ResponseWriter to ServeHTTP
Arrive(b, fails) ==
    /\ pc \in {"idle", "done"}
    /\ r' = [Body |-> b, readFails |-> fails]
    /\ w' = NewResponseWriter
    /\ body' = <<>>
    /\ incomingReview' = NoReview
    /\ admitted' = NoOutcome
    /\ reviewResponse' = None
    /\ err' = None
    /\ logger' = <<>>
    /\ steps' = <<>>
    /\ marshalFailed' = {}
    /\ pc' = "ServeHTTP"
    /\ UNCHANGED <<ah, afIn, afOut, otherVars>>

\* ServeHTTP up to the call of handleAdmissionRequest
Begin ==
    /\ pc = "ServeHTTP"
    /\ ah' = [deserializer |-> TRUE,
              LimitBytes |-> IF ah.LimitBytes <= 0 THEN DefaultLimitBytes ELSE ah.LimitBytes]
    /\ w' = [w EXCEPT !.contentType = "application/json"]
    /\ pc' = "read"
    /\ UNCHANGED <<r, body, incomingReview, admitted, reviewResponse, err, logger,
                   steps, marshalFailed, afIn, afOut, otherVars>>

\* ioutil.ReadAll(limitReader) and the empty-body check
ReadBody ==
    /\ pc = "read"
    /\ steps' = Append(steps, "read")
    /\ LET data == LimitReader(r.Body, ah.LimitBytes)
       IN  IF r.readFails
           THEN /\ err' = Some(AdmissionError(FALSE, "could not read the request body", "unexpected EOF"))
                /\ pc' = "failed"
                /\ body' = body
           ELSE IF Len(data) = 0
           THEN /\ err' = Some(AdmissionError(FALSE, "no request body was received", "the request body was nil/len == 0"))
                /\ pc' = "failed"
                /\ body' = data
           ELSE /\ err' = err
                /\ pc' = "decode"
                /\ body' = data
    /\ UNCHANGED <<ah, r, w, incomingReview, admitted, reviewResponse, logger,
                   marshalFailed, afIn, afOut, otherVars>>

DecodeReview ==
    /\ pc = "decode"
    /\ steps' = Append(steps, "decode")
    /\ LET d == Decode(body)
       IN  IF d.ok
           THEN /\ incomingReview' = d.review
                /\ err' = err
                /\ pc' = "validate"
           ELSE /\ incomingReview' = incomingReview
                /\ err' = Some(AdmissionError(FALSE, "decoding the review request failed", "json parse error"))
                /\ pc' = "failed"
    /\ UNCHANGED <<ah, r, w, body, admitted, reviewResponse, logger, marshalFailed,
                   afIn, afOut, otherVars>>

ValidateRequest ==
    /\ pc = "validate"
    /\ steps' = Append(steps, "validate")
    /\ IF RequestMissing(incomingReview)
       THEN /\ err' = Some(PlainError("received invalid request: no AdmissionReview was found"))
            /\ pc' = "failed"
       ELSE /\ err' = err
            /\ pc' = "admit"
    /\ UNCHANGED <<ah, r, w, body, incomingReview, admitted, reviewResponse, logger,
                   marshalFailed, afIn, afOut, otherVars>>

\* ah.AdmitFunc(&incomingReview) returns out, and the two checks of its result
InvokeAdmitFunc(out) ==
    /\ pc = "admit"
    /\ steps' = Append(steps, "admit")
    /\ admitted' = out
    /\ IF out.err # None
       THEN /\ err' = Some(AdmitFuncFailed(out.resp, out.err[1]))
            /\ pc' = "failed"
       ELSE IF out.resp = None
       THEN /\ err' = Some(AdmissionError(FALSE, "the AdmitFunc returned an empty AdmissionReview", ""))
            /\ pc' = "failed"
       ELSE /\ err' = err
            /\ pc' = "marshal"
    /\ UNCHANGED <<ah, r, w, body, incomingReview, reviewResponse, logger,
                   marshalFailed, afIn, afOut, otherVars>>

\* the UID is copied and the review is marshalled; ok: json.Marshal succeeded
MarshalReview(ok) ==
    /\ pc = "marshal"
    /\ steps' = Append(steps, "marshal")
    /\ reviewResponse' = Some(WithUID(admitted.resp[1], incomingReview.Request[1].UID))
    /\ IF ok
       THEN /\ err' = err
            /\ marshalFailed' = marshalFailed
            /\ pc' = "write"
       ELSE /\ err' = Some(AdmissionError(FALSE, "marshalling the review response failed", "json: unsupported value"))
            /\ marshalFailed' = marshalFailed \cup {"review"}
            /\ pc' = "failed"
    /\ UNCHANGED <<ah, r, w, body, incomingReview, admitted, logger, afIn, afOut, otherVars>>

\* w.WriteHeader(http.StatusOK); w.Write(res); return nil
WriteReview ==
    /\ pc = "write"
    /\ steps' = Append(steps, "write")
    /\ w' = RespondReview(w, reviewResponse[1])
    /\ pc' = "done"
    /\ UNCHANGED <<ah, r, body, incomingReview, admitted, reviewResponse, err, logger,
                   marshalFailed, afIn, afOut, otherVars>>

\* ServeHTTP's branch for a non-nil error; ok: json.Marshal(outgoingReview) succeeded
HandleError(ok) ==
    /\ pc = "failed"
    /\ steps' = Append(steps, "error")
    /\ w' = RespondError(w, err[1], ok)
    /\ logger' = logger \o LogError(err[1])
                   \o (IF ok THEN <<>> ELSE <<[msg |-> "failed to marshal review response", debug |-> ""]>>)
    /\ marshalFailed' = IF ok THEN marshalFailed ELSE marshalFailed \cup {"error"}
    /\ pc' = "done"
    /\ UNCHANGED <<ah, r, body, incomingReview, admitted, reviewResponse, err, afIn, afOut, otherVars>>

Next ==
    \/ \E b \in Bodies, fails \in BOOLEAN : Arrive(b, fails)
    \/ Begin
    \/ ReadBody
    \/ DecodeReview
    \/ ValidateRequest
    \/ \E out \in AdmitOutcomes : InvokeAdmitFunc(out)
    \/ \E ok \in BOOLEAN : MarshalReview(ok)
    \/ WriteReview
    \/ \E ok \in BOOLEAN : HandleError(ok)

Spec == Init /\ [][Next]_vars

----------------------------------------------------------------------------
(* The built-in AdmitFuncs *)

\* the decoded fields of a submitted Kubernetes object the AdmitFuncs read
K8sObject(ns) ==
    [Namespace |-> ns, Annotations |-> None, SpecType |-> "",
     Template |-> [Namespace |-> "", Annotations |-> None]]

\* deserializer.Decode(admissionReview.Request.Object.Raw, nil, &obj): a nil
\* (or white-space) payload is read by the YAML decoder as null and leaves
\* the zero object; bytes that are not a JSON object of the target type (Junk)
\* are a decode error
DecodeObject(raw) ==
    LET d == TrimRight(raw)
    IN  IF Len(d) = 1 /\ d[1].t = "object"
        THEN [ok |-> TRUE, obj |-> d[1].v[1], err |-> ""]
        ELSE IF d = <<>>
        THEN [ok |-> TRUE, obj |-> K8sObject(""), err |-> ""]
        ELSE [ok |-> FALSE, obj |-> K8sObject(""), err |-> "couldn't get version/kind; json parse error"]

newDefaultAllowResponse ==
    [UID |-> "", Allowed |-> TRUE, Result |-> Some([Message |-> ""]), Patch |-> <<>>, PatchType |-> None]

newDefaultDenyResponse ==
    [UID |-> "", Allowed |-> FALSE, Result |-> Some([Message |-> ""]), Patch |-> <<>>, PatchType |-> None]

\* strings.ToLower on the namespaces of the model
ToLower(s) == IF s = "ISTIO-SYSTEM" THEN "istio-system" ELSE s

IsIgnoredNamespaceFold(namespace, ignoredNamespaces) ==
    \E i \in 1..Len(ignoredNamespaces) : ToLower(namespace) = ToLower(ignoredNamespaces[i])

\* for _, ns := range ignoredNamespaces { if namespace == ns { ... } }
IsIgnoredNamespace(namespace, ignoredNamespaces) ==
    \E i \in 1..Len(ignoredNamespaces) : namespace = ignoredNamespaces[i]

Whitelisted(resp, namespace) ==
    [resp EXCEPT !.Allowed = TRUE,
                 !.Result = Some([Message |-> "allowing admission: " \o namespace \o " namespace is whitelisted"])]

DenyIngresses(ignoredNamespaces, admissionReview) ==
    LET kind == admissionReview.Request[1].Kind
        resp == newDefaultDenyResponse
    IN  IF kind = "Ingress"
        THEN LET d == DecodeObject(admissionReview.Request[1].Object)
             IN  IF ~d.ok
                 THEN [resp |-> None, err |-> Some(d.err)]
                 ELSE IF IsIgnoredNamespace(d.obj.Namespace, ignoredNamespaces)
                 THEN [resp |-> Some(Whitelisted(resp, d.obj.Namespace)), err |-> None]
                 ELSE [resp |-> None, err |-> Some(kind \o " objects cannot be deployed to this cluster")]
        ELSE [resp |-> Some([resp EXCEPT !.Allowed = TRUE]), err |-> None]

\* a decoded object with every field the AdmitFuncs read
Object(ns, annotations, specType, templateNs, templateAnnotations) ==
    [Namespace |-> ns, Annotations |-> annotations, SpecType |-> specType,
     Template |-> [Namespace |-> templateNs, Annotations |-> templateAnnotations]]

\* v, ok := m[k] on a Go map (None is the nil map, Some(f) a map)
Lookup(m, k) ==
    IF m # None /\ k \in DOMAIN m[1]
    THEN [ok |-> TRUE, val |-> m[1][k]]
    ELSE [ok |-> FALSE, val |-> ""]

GCP == 0

Azure == 1

AWS == 2

OpenStack == 3

ilbAnnotations ==
    (GCP :> ("cloud.google.com/load-balancer-type" :> "Internal"))
    @@ (Azure :> ("service.beta.kubernetes.io/azure-load-balancer-internal" :> "true"))
    @@ (AWS :> ("service.beta.kubernetes.io/aws-load-balancer-internal" :> "0.0.0.0/0"))
    @@ (OpenStack :> ("service.beta.kubernetes.io/openstack-internal-load-balancer" :> "true"))

\* fmt's %q of a CloudProvider (an int): the quoted character literal
FormatQ(provider) == "'\\x0" \o ToString(provider) \o "'"

ensureHasAnnotationsKeyOnly(required, annotations) ==
    LET missing == [k \in {k \in DOMAIN required : ~Lookup(annotations, k).ok} |-> required[k]]
    IN  [missing |-> missing, ok |-> DOMAIN missing = {}]

ensureHasAnnotations(required, annotations) ==
    LET missing ==
            [k \in {k \in DOMAIN required :
                        \/ ~Lookup(annotations, k).ok
                        \/ Lookup(annotations, k).val # required[k]} |-> required[k]]
    IN  [missing |-> missing, ok |-> DOMAIN missing = {}]

DenyPublicLoadBalancers(ignoredNamespaces, provider, admissionReview) ==
    LET kind == admissionReview.Request[1].Kind
        resp == newDefaultDenyResponse
        d == DecodeObject(admissionReview.Request[1].Object)
        service == d.obj
    IN  IF ~d.ok
        THEN [resp |-> None, err |-> Some(d.err)]
        ELSE IF kind # "Service" \/ service.SpecType # "LoadBalancer"
        THEN [resp |-> Some([resp EXCEPT
                                !.Allowed = TRUE,
                                !.Result = Some([Message |-> "DenyPublicLoadBalancers received a non-LoadBalancer type ("
                                                             \o service.SpecType \o ")"])]),
              err |-> None]
        ELSE IF IsIgnoredNamespace(service.Namespace, ignoredNamespaces)
        THEN [resp |-> Some(Whitelisted(resp, service.Namespace)), err |-> None]
        ELSE IF provider \notin DOMAIN ilbAnnotations
        THEN [resp |-> Some(resp),
              err |-> Some("internal load balancer annotations for the given provider ("
                           \o FormatQ(provider) \o ") are not supported")]
        ELSE IF ~ensureHasAnnotations(ilbAnnotations[provider], service.Annotations).ok
        THEN [resp |-> Some(resp),
              err |-> Some(kind \o " objects of type: LoadBalancer without an internal-only annotation cannot be deployed to this cluster")]
        ELSE [resp |-> Some([resp EXCEPT !.Allowed = TRUE]), err |-> None]

podDeniedError == "the submitted Pods are missing required annotations:"

unsupportedKindError == "the submitted Kind is not supported by this admission handler:"

\* the annotation keys of the model in the order sort.Strings gives them
SortedKeys == <<"buildVersion", "questionable.services/hostname">>

\* fmt's %v of a map[string]string: map[k1:v1 k2:v2], keys sorted
RECURSIVE FormatEntries(_, _)
FormatEntries(m, i) ==
    IF i > Len(SortedKeys) THEN ""
    ELSE LET k == SortedKeys[i]
             rest == FormatEntries(m, i + 1)
         IN  IF k \in DOMAIN m
             THEN k \o ":" \o m[k] \o (IF \E j \in (i + 1)..Len(SortedKeys) : SortedKeys[j] \in DOMAIN m
                                        THEN " " ELSE "") \o rest
             ELSE rest

FormatMap(m) == "map[" \o FormatEntries(m, 1) \o "]"

\* strings.HasPrefix(s, "v") on the annotation values of the model
HasPrefixV(s) == s \in {"v1.0.2", "v1.0.0"}

\* matchFunc(existingVal): a required key's predicate, by name
Matches(matchFunc, existingVal) ==
    IF matchFunc = "any" THEN TRUE ELSE HasPrefixV(existingVal)

IsSupportedKindAny(kind) == TRUE

\* the cases of the switch on kind
IsSupportedKind(kind) == kind \in {"Pod", "Deployment", "StatefulSet", "DaemonSet", "Job"}

\* the namespace and annotations each case of the switch extracts; the
\* Deployment case calls deployment.GetNamespace() and drops the result
ExtractMetadata(kind, obj) ==
    CASE kind = "Deployment" -> [namespace |-> "", annotations |-> obj.Template.Annotations]
      [] kind \in {"StatefulSet", "DaemonSet"} ->
            [namespace |-> obj.Namespace, annotations |-> obj.Template.Annotations]
      [] kind = "Job" -> [namespace |-> obj.Template.Namespace, annotations |-> obj.Template.Annotations]
      [] OTHER -> [namespace |-> obj.Namespace, annotations |-> obj.Annotations]

\* requiredAnnotations maps a key to its predicate ("nil" is the nil func);
\* order is the order in which range visits the keys of the map
EnforcePodAnnotations(ignoredNamespaces, requiredAnnotations, order, admissionReview) ==
    LET kind == admissionReview.Request[1].Kind
        resp == newDefaultDenyResponse
        d == DecodeObject(admissionReview.Request[1].Object)
        meta == ExtractMetadata(kind, d.obj)
        nils == {i \in 1..Len(order) : requiredAnnotations[order[i]] = "nil"}
        firstNil == CHOOSE i \in nils : \A j \in nils : i <= j
        missing ==
            [k \in {k \in DOMAIN requiredAnnotations :
                        \/ ~Lookup(meta.annotations, k).ok
                        \/ ~Matches(requiredAnnotations[k], Lookup(meta.annotations, k).val)}
                |-> IF ~Lookup(meta.annotations, k).ok
                    THEN "key was not found" ELSE "value did not match"]
    IN  IF ~IsSupportedKind(kind)
        THEN [resp |-> None, err |-> Some(unsupportedKindError \o " " \o kind)]
        ELSE IF ~d.ok
        THEN [resp |-> None, err |-> Some(d.err)]
        ELSE IF IsIgnoredNamespace(meta.namespace, ignoredNamespaces)
        THEN [resp |-> Some(Whitelisted(resp, meta.namespace)), err |-> None]
        ELSE IF nils # {}
        THEN [resp |-> Some(resp),
              err |-> Some("cannot validate annotations (" \o order[firstNil] \o ") with a nil matchFunc")]
        ELSE IF DOMAIN missing # {}
        THEN [resp |-> Some(resp), err |-> Some(podDeniedError \o " " \o FormatMap(missing))]
        ELSE [resp |-> Some([resp EXCEPT !.Allowed = TRUE]), err |-> None]

clusterAutoScalerAnnotationKey == "cluster-autoscaler.kubernetes.io/safe-to-evict"

\* patchOperation{Op, Path, Value}
patchOperation(op, path, value) == [Op |-> op, Path |-> path, Value |-> value]

\* updateAnnotation(target, added) for the one-key map GetPatch passes;
\* target[key] of a nil map or of a map without the key is ""
updateAnnotation(target, added) ==
    LET key == CHOOSE k \in DOMAIN added : TRUE
        value == added[key]
    IN  IF target = None \/ Lookup(target, key).val = ""
        THEN <<patchOperation("add", "/metadata/annotations", key :> value)>>
        ELSE <<patchOperation("replace", "/metadata/annotations/" \o key, value)>>

\* json.Marshal(patch): the bytes of the JSON array of the operations
GetPatch(pod) ==
    <<[t |-> "patch", v |-> updateAnnotation(pod.Annotations, clusterAutoScalerAnnotationKey :> "true")]>>

\* the annotation keys a path of the patch may name
PatchKeys == {clusterAutoScalerAnnotationKey, "buildVersion"}

\* one operation of a JSON patch (RFC 6902) applied to the annotations of the
\* Pod: "add" and "replace" at /metadata/annotations set the member to the
\* value, replacing a map that is there; at /metadata/annotations/<key> they
\* set the one key of the existing map
ApplyOperation(annotations, op) ==
    IF op.Path = "/metadata/annotations"
    THEN Some(op.Value)
    ELSE LET key == CHOOSE k \in PatchKeys : op.Path = "/metadata/annotations/" \o k
         IN  IF annotations = None
             THEN annotations
             ELSE Some((key :> op.Value) @@ annotations[1])

RECURSIVE ApplyPatch(_, _)
\* the operations of the patch applied in order
ApplyPatch(annotations, ops) ==
    IF ops = <<>>
    THEN annotations
    ELSE ApplyPatch(ApplyOperation(annotations, Head(ops)), Tail(ops))

HasAutoscalerKeyValue(annotations) == Lookup(annotations, clusterAutoScalerAnnotationKey).val # ""

\* _, ok := annotations[clusterAutoScalerAnnotationKey]
HasAutoscalerKey(annotations) == Lookup(annotations, clusterAutoScalerAnnotationKey).ok

AddAutoscalerAnnotation(ignoredNamespaces, admissionReview) ==
    LET kind == admissionReview.Request[1].Kind
        resp == newDefaultDenyResponse
        d == DecodeObject(admissionReview.Request[1].Object)
        pod == d.obj
    IN  IF kind # "Pod"
        THEN [resp |-> Some([resp EXCEPT !.Allowed = TRUE,
                                         !.Result = Some([Message |-> "object was not a pod, " \o kind])]),
              err |-> None]
        ELSE IF ~d.ok
        THEN [resp |-> None, err |-> Some(d.err)]
        ELSE IF IsIgnoredNamespace(pod.Namespace, ignoredNamespaces)
        THEN [resp |-> Some(Whitelisted(resp, pod.Namespace)), err |-> None]
        ELSE IF HasAutoscalerKey(pod.Annotations)
        THEN [resp |-> Some([resp EXCEPT !.Allowed = TRUE,
                                         !.Result = Some([Message |-> "object already has auto scaler annotation"])]),
              err |-> None]
        ELSE [resp |-> Some([UID |-> "", Allowed |-> TRUE,
                             Result |-> Some([Message |-> "Updating annotations"]),
                             Patch |-> GetPatch(pod), PatchType |-> Some("JSONPatch")]),
              err |-> None]

(* Inputs of the built-in AdmitFuncs *)

Kinds == {"Ingress", "ingress", "Service", "Pod"}

Namespaces == {"", "default", "istio-system", "ISTIO-SYSTEM"}

IgnoredLists == UNION {[1..n -> {"default", "istio-system", "kube-system"}] : n \in 0..MaxIgnored}

Raws == {<<>>, <<Junk>>} \cup {<<ObjectBytes(K8sObject(ns))>> : ns \in Namespaces}

AdmitReviews ==
    {[Request |-> Some([UID |-> "uid-1", Kind |-> k, Object |-> raw]), Response |-> None] :
        k \in Kinds, raw \in Raws}

InitAdmit == Init /\ ah.LimitBytes = 0

\* GCP..OpenStack and one value outside the table
Providers == GCP..(OpenStack + 1)

ServiceAnnotations ==
    {None,
     Some(ilbAnnotations[GCP]), Some(ilbAnnotations[Azure]),
     Some(ilbAnnotations[AWS]), Some(ilbAnnotations[OpenStack]),
     Some("service.beta.kubernetes.io/azure-load-balancer-internal" :> "True"),
     Some(ilbAnnotations[AWS] @@ ("buildVersion" :> "v1.0.2"))}

ServiceTypes == {"LoadBalancer", "ClusterIP", ""}

ServiceRaws ==
    {<<>>, <<Junk>>}
    \cup {<<ObjectBytes(Object(ns, a, t, "", None))>> :
            ns \in {"default", "istio-system"}, a \in ServiceAnnotations, t \in ServiceTypes}

ServiceReviews ==
    {[Request |-> Some([UID |-> "uid-1", Kind |-> k, Object |-> raw]), Response |-> None] :
        k \in {"Service", "Pod", "Deployment"}, raw \in ServiceRaws}

PodAnnotations ==
    {None,
     Some("buildVersion" :> "v1.0.2"),
     Some("buildVersion" :> "1.0.2"),
     Some(("buildVersion" :> "v1.0.2")
          @@ ("questionable.services/hostname" :> "hello-app.questionable.services"))}

PodRaws ==
    {<<>>, <<Junk>>}
    \cup {<<ObjectBytes(Object(ns, a, "", tns, ta))>> :
            ns \in {"default", "kube-system"}, a \in PodAnnotations,
            tns \in {"", "kube-system"}, ta \in PodAnnotations}

PodKinds == {"Pod", "Deployment", "StatefulSet", "DaemonSet", "Job", "Service"}

PodReviews ==
    {[Request |-> Some([UID |-> "uid-1", Kind |-> k, Object |-> raw]), Response |-> None] :
        k \in PodKinds, raw \in PodRaws}

MatchFuncs == {"nil", "any", "hasPrefixV"}

RequiredAnnotations ==
    UNION {[keys -> MatchFuncs] : keys \in SUBSET {SortedKeys[i] : i \in DOMAIN SortedKeys}}

\* the orders in which range may visit the keys of m
Orders(m) ==
    {o \in UNION {[1..n -> DOMAIN m] : n \in {Cardinality(DOMAIN m)}} :
        \A i, j \in DOMAIN o : i # j => o[i] # o[j]}

PodIgnoredLists == UNION {[1..n -> {"default", "kube-system"}] : n \in 0..(MaxIgnored - 1)}

AutoscalerAnnotations ==
    {None, Some(<<>>),
     Some(clusterAutoScalerAnnotationKey :> "true"),
     Some(clusterAutoScalerAnnotationKey :> ""),
     Some("buildVersion" :> "v1.0.2"),
     Some(("buildVersion" :> "v1.0.2") @@ (clusterAutoScalerAnnotationKey :> "false"))}

AutoscalerRaws ==
    {<<>>, <<Junk>>}
    \cup {<<ObjectBytes(Object(ns, a, "", "", None))>> :
            ns \in {"default", "kube-system"}, a \in AutoscalerAnnotations}

AutoscalerReviews ==
    {[Request |-> Some([UID |-> "uid-1", Kind |-> k, Object |-> raw]), Response |-> None] :
        k \in {"Pod", "Deployment"}, raw \in AutoscalerRaws}

CallDenyIngresses(ignoredNamespaces, review) ==
    /\ afIn = None
    /\ afIn' = Some([fn |-> "DenyIngresses", ignoredNamespaces |-> ignoredNamespaces, review |-> review])
    /\ afOut' = Some(DenyIngresses(ignoredNamespaces, review))
    /\ UNCHANGED <<handlerVars, otherVars>>

CallDenyPublicLoadBalancers(ignoredNamespaces, provider, review) ==
    /\ afIn = None
    /\ afIn' = Some([fn |-> "DenyPublicLoadBalancers", ignoredNamespaces |-> ignoredNamespaces,
                     provider |-> provider, review |-> review])
    /\ afOut' = Some(DenyPublicLoadBalancers(ignoredNamespaces, provider, review))
    /\ UNCHANGED <<handlerVars, otherVars>>

CallEnforcePodAnnotations(ignoredNamespaces, requiredAnnotations, order, review) ==
    /\ afIn = None
    /\ afIn' = Some([fn |-> "EnforcePodAnnotations", ignoredNamespaces |-> ignoredNamespaces,
                     requiredAnnotations |-> requiredAnnotations, order |-> order, review |-> review])
    /\ afOut' = Some(EnforcePodAnnotations(ignoredNamespaces, requiredAnnotations, order, review))
    /\ UNCHANGED <<handlerVars, otherVars>>

CallAddAutoscalerAnnotation(ignoredNamespaces, review) ==
    /\ afIn = None
    /\ afIn' = Some([fn |-> "AddAutoscalerAnnotation", ignoredNamespaces |-> ignoredNamespaces,
                     review |-> review])
    /\ afOut' = Some(AddAutoscalerAnnotation(ignoredNamespaces, review))
    /\ UNCHANGED <<handlerVars, otherVars>>

\* one call of one AdmitFunc on one review
NextAdmit ==
    \/ afIn = None /\ \E l \in IgnoredLists, rv \in AdmitReviews : CallDenyIngresses(l, rv)
    \/ afIn = None /\ \E l \in IgnoredLists, p \in Providers, rv \in ServiceReviews :
                        CallDenyPublicLoadBalancers(l, p, rv)
    \/ afIn = None /\ \E l \in PodIgnoredLists, m \in RequiredAnnotations, rv \in PodReviews :
                        \E o \in Orders(m) : CallEnforcePodAnnotations(l, m, o, rv)
    \/ afIn = None /\ \E l \in IgnoredLists, rv \in AutoscalerReviews :
                        CallAddAutoscalerAnnotation(l, rv)

SpecAdmit == InitAdmit /\ [][NextAdmit]_vars

----------------------------------------------------------------------------
(* The AdmissionServer: NewServer, Run, shutdown, Stop *)

ErrServerClosed == "http: Server closed"

BindError == "listen tcp :8443: bind: address already in use"

NetworkError == "accept tcp :8443: too many open files"

TLSWarning == "the provided *http.Server has a nil TLSConfig, which will prevent it from being reached as an in-cluster Service"

NewServerNoLoggerCheck(s, l) ==
    IF s = None
    THEN [as |-> None, err |-> Some("a non-nil *http.Server must be provided"), logged |-> {}]
    ELSE [as |-> Some([GracePeriod |-> defaultGracePeriod]), err |-> None,
          logged |-> IF s[1].TLSConfig = None /\ l # None THEN {TLSWarning} ELSE {}]

\* NewServer(srv, logger): the server and error returned, and what it logs
NewServer(s, l) ==
    IF s = None
    THEN [as |-> None, err |-> Some("a non-nil *http.Server must be provided"), logged |-> {}]
    ELSE IF l = None
    THEN [as |-> None, err |-> Some("a non-nil log.Logger must be provided"), logged |-> {}]
    ELSE [as |-> Some([GracePeriod |-> defaultGracePeriod]), err |-> None,
          logged |-> IF s[1].TLSConfig = None THEN {TLSWarning} ELSE {}]

\* the *http.Server values a caller may pass: nil, or one with or without a
\* Handler and a TLSConfig
ServerArgs ==
    {None,
     Some([Handler |-> None, TLSConfig |-> None]),
     Some([Handler |-> Some("handler"), TLSConfig |-> None]),
     Some([Handler |-> Some("handler"), TLSConfig |-> Some("tls")])}

LoggerArgs == {None, Some("logger")}

CallNewServer(s, l) ==
    /\ nsOut = None
    /\ LET out == NewServer(s, l)
       IN  /\ nsOut' = Some([as |-> out.as, err |-> out.err, srv |-> s, logger |-> l])
           /\ as' = out.as
           /\ slog' = slog \cup out.logged
           /\ srv' = IF out.as # None
                     THEN [srv EXCEPT !.Handler = s[1].Handler, !.TLSConfig = s[1].TLSConfig]
                     ELSE srv
    /\ UNCHANGED <<ctxDone, run, lis, chans, shut, panics, listenAgain, signals, nonServerVars>>

\* Run up to the select: make(chan os.Signal, 1), signal.Notify, make(chan error), go func
RunStart ==
    /\ as # None
    /\ run.pc = "idle"
    /\ chans' = [chans EXCEPT !.made = TRUE, !.notify = TRUE]
    /\ lis' = [lis EXCEPT !.pc = "start"]
    /\ run' = [run EXCEPT !.pc = "select"]
    /\ UNCHANGED <<as, nsOut, srv, slog, ctxDone, shut, panics, listenAgain, signals, nonServerVars>>

\* the goroutine logs that it is listening
ListenerStart ==
    /\ lis.pc = "start"
    /\ slog' = slog \cup {"admission control listening"}
    /\ lis' = [lis EXCEPT !.pc = "listen"]
    /\ UNCHANGED <<as, nsOut, srv, ctxDone, run, chans, shut, panics, listenAgain, signals, nonServerVars>>

\* as.srv.ListenAndServe() / ListenAndServeTLS("", ""): server-closed when
\* the server is shutting down, a bind error, or it serves; err != nil &&
\* err != http.ErrServerClosed goes to errs <- err
ListenAndServe(bound) ==
    /\ lis.pc = "listen"
    /\ IF srv.inShutdown
       THEN /\ lis' = [lis EXCEPT !.pc = "exited"]
            /\ srv' = srv
       ELSE IF bound
       THEN /\ lis' = [lis EXCEPT !.pc = "serving"]
            /\ srv' = [srv EXCEPT !.listening = TRUE]
       ELSE /\ lis' = [pc |-> "sending", err |-> Some(BindError)]
            /\ srv' = srv
    /\ UNCHANGED <<as, nsOut, slog, ctxDone, run, chans, shut, panics, listenAgain, signals, nonServerVars>>

\* Serve returns a fatal network error: the listener is closed
ListenerFail ==
    /\ lis.pc = "serving"
    /\ ~srv.inShutdown
    /\ lis' = [pc |-> "sending", err |-> Some(NetworkError)]
    /\ srv' = [srv EXCEPT !.listening = FALSE]
    /\ UNCHANGED <<as, nsOut, slog, ctxDone, run, chans, shut, panics, listenAgain, signals, nonServerVars>>

\* Serve returns http.ErrServerClosed after Shutdown: the goroutine returns
ListenerClosed ==
    /\ lis.pc = "serving"
    /\ srv.inShutdown
    /\ lis' = [lis EXCEPT !.pc = "exited"]
    /\ UNCHANGED <<as, nsOut, srv, slog, ctxDone, run, chans, shut, panics, listenAgain, signals, nonServerVars>>

\* errs <- err on the channel Run has closed: the send panics
ListenerSendOnClosed ==
    /\ lis.pc = "sending"
    /\ chans.errsClosed
    /\ lis' = [lis EXCEPT !.pc = "panicked"]
    /\ panics' = panics \cup {"errs"}
    /\ UNCHANGED <<as, nsOut, srv, slog, ctxDone, run, chans, shut, listenAgain, signals, nonServerVars>>

\* after the send: the goroutine logs "the server exited" and returns
ListenerExit ==
    /\ lis.pc = "sent"
    /\ slog' = slog \cup {"the server exited"}
    /\ lis' = [lis EXCEPT !.pc = "exited"]
    /\ UNCHANGED <<as, nsOut, srv, ctxDone, run, chans, shut, panics, listenAgain, signals, nonServerVars>>

\* case sig := <-sigChan
RunReceiveSignal ==
    /\ run.pc = "select"
    /\ chans.sig > 0
    /\ chans' = [chans EXCEPT !.sig = 0]
    /\ slog' = slog \cup {"signal received"}
    /\ run' = [run EXCEPT !.pc = "shutdown"]
    /\ UNCHANGED <<as, nsOut, srv, ctxDone, lis, shut, panics, listenAgain, signals, nonServerVars>>

RunReceiveErrShutdown ==
    /\ run.pc = "select"
    /\ lis.pc = "sending"
    /\ lis' = [lis EXCEPT !.pc = "sent"]
    /\ slog' = slog \cup {"listener error"}
    /\ run' = [run EXCEPT !.pc = "shutdown"]
    /\ UNCHANGED <<as, nsOut, srv, ctxDone, chans, shut, panics, listenAgain, signals, nonServerVars>>

\* case err := <-errs: the rendezvous with the goroutine's errs <- err
RunReceiveErr ==
    /\ run.pc = "select"
    /\ lis.pc = "sending"
    /\ lis' = [lis EXCEPT !.pc = "sent"]
    /\ slog' = slog \cup {"listener error"}
    /\ run' = [pc |-> "returning", result |-> lis.err]
    /\ UNCHANGED <<as, nsOut, srv, ctxDone, chans, shut, panics, listenAgain, signals, nonServerVars>>

\* case <-ctx.Done()
RunCancelled ==
    /\ run.pc = "select"
    /\ ctxDone
    /\ slog' = slog \cup {"cancellation received"}
    /\ run' = [run EXCEPT !.pc = "shutdown"]
    /\ UNCHANGED <<as, nsOut, srv, ctxDone, lis, chans, shut, panics, listenAgain, signals, nonServerVars>>

\* return as.shutdown(ctx, as.GracePeriod)
RunShutdownReturn ==
    /\ run.pc = "shutdown"
    /\ shut["run"].pc = "returned"
    /\ run' = [pc |-> "returning", result |-> shut["run"].result]
    /\ UNCHANGED <<as, nsOut, srv, slog, ctxDone, lis, chans, shut, panics, listenAgain, signals, nonServerVars>>

\* Run returns: the deferred close(errs) and close(sigChan)
RunReturn ==
    /\ run.pc = "returning"
    /\ chans' = [chans EXCEPT !.errsClosed = TRUE, !.sigClosed = TRUE]
    /\ run' = [run EXCEPT !.pc = "returned"]
    /\ UNCHANGED <<as, nsOut, srv, slog, ctxDone, lis, shut, panics, listenAgain, signals, nonServerVars>>

\* whether the context shutdown(ctx, gracePeriod) derives its timeout from is
\* done: Run passes its own ctx, Stop passes context.TODO()
ParentDone(caller) == caller = "run" /\ ctxDone

ShutdownBeginKeepOpen(caller) ==
    /\ as # None
    /\ shut[caller].pc = "idle"
    /\ caller = "run" => run.pc = "shutdown"
    /\ slog' = slog \cup {"server shutting down"}
    /\ srv' = [srv EXCEPT !.listening = FALSE]
    /\ shut' = [shut EXCEPT ![caller].pc = "polling"]
    /\ UNCHANGED <<as, nsOut, ctxDone, run, lis, chans, panics, listenAgain, signals, nonServerVars>>

\* as.shutdown up to as.srv.Shutdown(timeoutCtx) closing the listeners
ShutdownBegin(caller) ==
    /\ as # None
    /\ shut[caller].pc = "idle"
    /\ caller = "run" => run.pc = "shutdown"
    /\ slog' = slog \cup {"server shutting down"}
    /\ srv' = [srv EXCEPT !.inShutdown = TRUE, !.listening = FALSE]
    /\ shut' = [shut EXCEPT ![caller].pc = "polling"]
    /\ UNCHANGED <<as, nsOut, ctxDone, run, lis, chans, panics, listenAgain, signals, nonServerVars>>

\* srv.Shutdown(timeoutCtx) polling: nil once no request is in flight,
\* ctx.Err() once timeoutCtx is done (parent cancelled or grace period over)
ShutdownPoll(caller) ==
    /\ shut[caller].pc = "polling"
    /\ IF srv.inFlight = 0
       THEN shut' = [shut EXCEPT ![caller].pc = "returned"]
       ELSE IF ParentDone(caller)
       THEN shut' = [shut EXCEPT ![caller] = [@ EXCEPT !.pc = "returned", !.gaveUp = TRUE,
                                                       !.result = Some("context canceled")]]
       ELSE /\ shut[caller].elapsed >= as[1].GracePeriod
            /\ shut' = [shut EXCEPT ![caller] = [@ EXCEPT !.pc = "returned", !.gaveUp = TRUE,
                                                          !.result = Some("context deadline exceeded")]]
    /\ UNCHANGED <<as, nsOut, srv, slog, ctxDone, run, lis, chans, panics, listenAgain, signals, nonServerVars>>

\* the timer of timeoutCtx fires: the grace period of a waiting shutdown is over
Tick(caller) ==
    /\ shut[caller].pc = "polling"
    /\ shut[caller].elapsed < as[1].GracePeriod
    /\ shut' = [shut EXCEPT ![caller].elapsed = as[1].GracePeriod]
    /\ UNCHANGED <<as, nsOut, srv, slog, ctxDone, run, lis, chans, panics, listenAgain, signals, nonServerVars>>

\* the process receives SIGINT or SIGTERM: the signal package sends it,
\* without blocking, on the channel given to signal.Notify
Signal ==
    /\ chans.notify
    /\ signals < MaxSignals
    /\ signals' = signals + 1
    /\ IF chans.sigClosed
       THEN /\ panics' = panics \cup {"sigChan"}
            /\ chans' = chans
       ELSE /\ chans' = [chans EXCEPT !.sig = 1]
            /\ panics' = panics
    /\ UNCHANGED <<as, nsOut, srv, slog, ctxDone, run, lis, shut, listenAgain, nonServerVars>>

\* the caller of Run cancels the context
Cancel ==
    /\ as # None
    /\ ~ctxDone
    /\ ctxDone' = TRUE
    /\ UNCHANGED <<as, nsOut, srv, slog, run, lis, chans, shut, panics, listenAgain, signals, nonServerVars>>

\* the listener accepts a connection and a request starts
Accept ==
    /\ srv.listening
    /\ ~srv.inShutdown
    /\ srv.inFlight < MaxInFlight
    /\ srv' = [srv EXCEPT !.inFlight = @ + 1]
    /\ UNCHANGED <<as, nsOut, slog, ctxDone, run, lis, chans, shut, panics, listenAgain, signals, nonServerVars>>

\* a request in flight completes
Complete ==
    /\ srv.inFlight > 0
    /\ srv' = [srv EXCEPT !.inFlight = @ - 1]
    /\ UNCHANGED <<as, nsOut, slog, ctxDone, run, lis, chans, shut, panics, listenAgain, signals, nonServerVars>>

\* a later as.srv.ListenAndServeTLS("", "") by the owner of the server
ListenAndServeAgain(bound) ==
    /\ as # None
    /\ listenAgain = None
    /\ lis.pc \in {"exited", "sent", "panicked"}
    /\ IF srv.inShutdown
       THEN /\ listenAgain' = Some(ErrServerClosed)
            /\ srv' = srv
       ELSE IF bound
       THEN /\ listenAgain' = Some("serving")
            /\ srv' = [srv EXCEPT !.listening = TRUE]
       ELSE /\ listenAgain' = Some(BindError)
            /\ srv' = srv
    /\ UNCHANGED <<as, nsOut, slog, ctxDone, run, lis, chans, shut, panics, signals, nonServerVars>>

InitServer == Init /\ ah.LimitBytes = 0

\* Stop is ShutdownBegin("stop") followed by ShutdownPoll("stop")
NextServer ==
    \/ \E s \in ServerArgs, l \in LoggerArgs : CallNewServer(s, l)
    \/ RunStart
    \/ ListenerStart
    \/ \E bound \in BOOLEAN : ListenAndServe(bound)
    \/ ListenerFail
    \/ ListenerClosed
    \/ ListenerSendOnClosed
    \/ ListenerExit
    \/ RunReceiveSignal
    \/ RunReceiveErr
    \/ RunCancelled
    \/ RunShutdownReturn
    \/ RunReturn
    \/ \E c \in {"run", "stop"} : ShutdownBegin(c)
    \/ \E c \in {"run", "stop"} : ShutdownPoll(c)
    \/ \E c \in {"run", "stop"} : Tick(c)
    \/ Signal
    \/ Cancel
    \/ Accept
    \/ Complete
    \/ \E bound \in BOOLEAN : ListenAndServeAgain(bound)

SpecServer == InitServer /\ [][NextServer]_vars

\* the Go scheduler runs every goroutine that can take a step, and the timer
\* of timeoutCtx fires; signals, cancellation, Stop, requests and listener
\* failures are the environment's and need not happen
FairServer ==
    /\ WF_vars(ListenerStart)
    /\ WF_vars(\E bound \in BOOLEAN : ListenAndServe(bound))
    /\ WF_vars(ListenerClosed)
    /\ WF_vars(ListenerExit)
    /\ WF_vars(RunReceiveSignal)
    /\ WF_vars(RunReceiveErr)
    /\ WF_vars(RunCancelled)
    /\ WF_vars(RunShutdownReturn)
    /\ WF_vars(RunReturn)
    /\ \A c \in {"run", "stop"} :
            WF_vars(ShutdownPoll(c)) /\ WF_vars(Tick(c))
    /\ WF_vars(ShutdownBegin("run"))

SpecServerFair == SpecServer /\ FairServer

----------------------------------------------------------------------------
(* LoggingMiddleware around a handler that may panic *)

\* the status codes the wrapped handler may pass to WriteHeader
HandlerStatuses == {StatusOK, 403, StatusInternalServerError}

\* the values the wrapped handler may panic with: panic(nil), an error or
\* a runtime error
PanicValues == {None, Some("boom"), Some("assignment to entry in nil map")}

\* WriteHeader(code) of the http.ResponseWriter of net/http: the first call
\* fixes the status, a later one is superfluous
UnderlyingWriteHeader(under, code) ==
    IF under.status = None THEN [under EXCEPT !.status = Some(code)] ELSE under

\* Write of the http.ResponseWriter of net/http: sends the header with
\* status 200 if none was written, then the bytes
UnderlyingWrite(under) ==
    [UnderlyingWriteHeader(under, StatusOK) EXCEPT !.writes = @ + 1]

\* the middleware's function up to next.ServeHTTP(wrapped, r)
MiddlewareStart(method) ==
    /\ mw.pc = "idle"
    /\ mw' = [mw EXCEPT !.pc = "next", !.method = method]
    /\ UNCHANGED nonMiddlewareVars

\* the wrapped handler calls wrapped.WriteHeader(code)
HandlerWriteHeader(code) ==
    /\ mw.pc = "next"
    /\ mw' = IF mw.wrapped.wroteHeader
              THEN mw
              ELSE [mw EXCEPT !.wrapped = [status |-> code, wroteHeader |-> TRUE],
                              !.under = UnderlyingWriteHeader(mw.under, code)]
    /\ UNCHANGED nonMiddlewareVars

\* the wrapped handler calls wrapped.Write: the embedded ResponseWriter's
HandlerWrite ==
    /\ mw.pc = "next"
    /\ mw.under.writes < MaxWrites
    /\ mw' = [mw EXCEPT !.under = UnderlyingWrite(mw.under)]
    /\ UNCHANGED nonMiddlewareVars

\* the wrapped handler panics with the value v
HandlerPanic(v) ==
    /\ mw.pc = "next"
    /\ mw' = [mw EXCEPT !.pc = "panicking", !.panicked = TRUE, !.panicValue = v,
                        !.statusAtPanic = mw.under.status]
    /\ UNCHANGED nonMiddlewareVars

\* the wrapped handler returns
HandlerReturn ==
    /\ mw.pc = "next"
    /\ mw' = [mw EXCEPT !.pc = "log"]
    /\ UNCHANGED nonMiddlewareVars

\* logger.Log("status", wrapped.status, "method", ..., "path", ..., "duration", ...)
MiddlewareLog ==
    /\ mw.pc = "log"
    /\ mw' = [mw EXCEPT !.pc = "done",
                        !.log = Append(@, [status |-> Some(mw.wrapped.status),
                                           method |-> Some(mw.method),
                                           err |-> None, trace |-> None])]
    /\ UNCHANGED nonMiddlewareVars

\* the deferred function: err := recover(), which stops the panic and is
\* nil after panic(nil) (go 1.12); if err != nil, w.WriteHeader(500) on the
\* writer the middleware was given and logger.Log("err", err, "trace", debug.Stack())
MiddlewareRecover ==
    /\ mw.pc = "panicking"
    /\ mw' = IF mw.panicValue = None
              THEN [mw EXCEPT !.pc = "done"]
              ELSE [mw EXCEPT !.pc = "done",
                              !.under = UnderlyingWriteHeader(mw.under, StatusInternalServerError),
                              !.log = Append(@, [status |-> None, method |-> None,
                                                 err |-> mw.panicValue, trace |-> Some("stack")])]
    /\ UNCHANGED nonMiddlewareVars

InitMiddleware == Init /\ ah.LimitBytes = 0

NextMiddleware ==
    \/ \E method \in {"GET", "POST"} : MiddlewareStart(method)
    \/ \E code \in HandlerStatuses : HandlerWriteHeader(code)
    \/ HandlerWrite
    \/ \E v \in PanicValues : HandlerPanic(v)
    \/ HandlerReturn
    \/ MiddlewareLog
    \/ MiddlewareRecover

SpecMiddleware == InitMiddleware /\ [][NextMiddleware]_vars

----------------------------------------------------------------------------
(* Concurrent ServeHTTP calls on one AdmissionHandler: the accesses of the *)
(* handler's fields, one step per access                                   *)

\* net/http starts ServeHTTP for request i on its own goroutine
ServeStart(i) ==
    /\ race.pcs[i] = "idle"
    /\ race' = [race EXCEPT !.pcs[i] = "check_deserializer"]
    /\ UNCHANGED <<ah, nonRaceVars>>

\* if ah.deserializer == nil
CheckDeserializer(i) ==
    /\ race.pcs[i] = "check_deserializer"
    /\ race' = [race EXCEPT !.pcs[i] = IF ah.deserializer THEN "check_limit"
                                                           ELSE "write_deserializer"]
    /\ UNCHANGED <<ah, nonRaceVars>>

\* ah.deserializer = ...UniversalDeserializer(): the store of the interface
\* value is two words; after the first one the field is non-nil
StoreDeserializer(i) ==
    /\ race.pcs[i] = "write_deserializer"
    /\ ah' = [ah EXCEPT !.deserializer = TRUE]
    /\ race' = [race EXCEPT !.pcs[i] = "write_deserializer_data",
                            !.writes.deserializer = @ + 1]
    /\ UNCHANGED nonRaceVars

\* the second word of the store
StoreDeserializerData(i) ==
    /\ race.pcs[i] = "write_deserializer_data"
    /\ race' = [race EXCEPT !.pcs[i] = "check_limit", !.dataStored = TRUE]
    /\ UNCHANGED <<ah, nonRaceVars>>

\* if ah.LimitBytes <= 0
CheckLimitBytes(i) ==
    /\ race.pcs[i] = "check_limit"
    /\ race' = [race EXCEPT !.pcs[i] = IF ah.LimitBytes <= 0 THEN "write_limit" ELSE "read_limit"]
    /\ UNCHANGED <<ah, nonRaceVars>>

\* ah.LimitBytes = 1024 * 1024 * 1024
StoreLimitBytes(i) ==
    /\ race.pcs[i] = "write_limit"
    /\ ah' = [ah EXCEPT !.LimitBytes = DefaultLimitBytes]
    /\ race' = [race EXCEPT !.pcs[i] = "read_limit", !.writes.LimitBytes = @ + 1]
    /\ UNCHANGED nonRaceVars

\* io.LimitReader(r.Body, ah.LimitBytes)
ReadLimitBytes(i) ==
    /\ race.pcs[i] = "read_limit"
    /\ race' = [race EXCEPT !.pcs[i] = "decode"]
    /\ UNCHANGED <<ah, nonRaceVars>>

\* ah.deserializer.Decode(body, nil, &incomingReview): on a value of which
\* only the first word is stored the call may do anything, a nil dereference
\* included
UseDeserializer(i, torn) ==
    /\ race.pcs[i] = "decode"
    /\ torn => ~race.dataStored
    /\ race' = [race EXCEPT !.pcs[i] = "done",
                            !.outcome[i] = Some(IF torn THEN "panic" ELSE "decoded")]
    /\ UNCHANGED <<ah, nonRaceVars>>

InitRace == Init

NextRace ==
    \/ \E i \in 1..MaxRequests : ServeStart(i)
    \/ \E i \in 1..MaxRequests : CheckDeserializer(i)
    \/ \E i \in 1..MaxRequests : StoreDeserializer(i)
    \/ \E i \in 1..MaxRequests : StoreDeserializerData(i)
    \/ \E i \in 1..MaxRequests : CheckLimitBytes(i)
    \/ \E i \in 1..MaxRequests : StoreLimitBytes(i)
    \/ \E i \in 1..MaxRequests : ReadLimitBytes(i)
    \/ \E i \in 1..MaxRequests, torn \in BOOLEAN : UseDeserializer(i, torn)

SpecRace == InitRace /\ [][NextRace]_vars

----------------------------------------------------------------------------
(* Concurrent invocations of one built-in AdmitFunc: the objects it reads  *)
(* and the maps it writes, one step per stage of the function              *)

FrameFns == {"DenyIngresses", "DenyPublicLoadBalancers", "EnforcePodAnnotations",
             "AddAutoscalerAnnotation"}

\* the objects every invocation shares: what the closure captured and the
\* package-level table
SharedLocations == {"ignoredNamespaces", "requiredAnnotations", "provider", "ilbAnnotations"}

\* the inbound AdmissionReview of invocation i
ReviewOf(i) == "review" \o ToString(i)

MissingMapShared(i) == "missing1"

\* missing := make(map[string]string): a map of invocation i's own
MissingMap(i) == "missing" \o ToString(i)

FrameIgnoredLists == {<<>>, <<"kube-system">>}

FrameRequired ==
    {("buildVersion" :> "hasPrefixV") @@ ("questionable.services/hostname" :> "any"),
     ("buildVersion" :> "nil") @@ ("questionable.services/hostname" :> "any")}

FrameProviders == {GCP, OpenStack + 1}

\* the requests sent to each AdmitFunc
FrameReviews(fn) ==
    LET review(k, raw) == [Request |-> Some([UID |-> "uid-1", Kind |-> k, Object |-> raw]),
                           Response |-> None]
        pod(ns, a) == <<ObjectBytes(Object(ns, a, "", "", None))>>
        service(a, t) == <<ObjectBytes(Object("default", a, t, "", None))>>
    IN  CASE fn = "DenyIngresses" ->
                {review("Ingress", <<ObjectBytes(K8sObject("default"))>>),
                 review("Ingress", <<ObjectBytes(K8sObject("kube-system"))>>),
                 review("Pod", <<ObjectBytes(K8sObject("default"))>>)}
          [] fn = "DenyPublicLoadBalancers" ->
                {review("Service", service(Some(ilbAnnotations[GCP]), "LoadBalancer")),
                 review("Service", service(None, "LoadBalancer")),
                 review("Service", service(None, "ClusterIP"))}
          [] fn = "EnforcePodAnnotations" ->
                {review("Pod", pod("default", Some("buildVersion" :> "v1.0.2"))),
                 review("Pod", pod("default", Some("buildVersion" :> "1.0.2"))),
                 review("Pod", pod("kube-system", None))}
          [] OTHER ->
                {review("Pod", pod("default", Some("buildVersion" :> "v1.0.2"))),
                 review("Pod", pod("default", Some(clusterAutoScalerAnnotationKey :> "true"))),
                 review("Pod", <<Junk>>)}

\* the AdmitFunc is constructed: fn(ignoredNamespaces, ...) captures its
\* arguments
FrameConstruct(fn, ignoredNamespaces, requiredAnnotations, provider) ==
    /\ frame.fn = ""
    /\ fn = "EnforcePodAnnotations" <=> requiredAnnotations # <<>>
    /\ fn = "DenyPublicLoadBalancers" \/ provider = GCP
    /\ LET mem == [loc \in SharedLocations
                            \cup {ReviewOf(i) : i \in 1..MaxInvocations}
                            \cup {MissingMap(i) : i \in 1..MaxInvocations} |->
                        CASE loc = "ignoredNamespaces" -> ignoredNamespaces
                          [] loc = "requiredAnnotations" -> requiredAnnotations
                          [] loc = "provider" -> provider
                          [] loc = "ilbAnnotations" -> ilbAnnotations
                          [] OTHER -> <<>>]
       IN  frame' = [frame EXCEPT !.fn = fn, !.mem = mem, !.mem0 = mem]
    /\ UNCHANGED nonFrameVars

\* some invocation other than i is between its call and its return: the
\* call of i overlaps it
OthersRunning(i) ==
    \E j \in 1..MaxInvocations : j # i /\ frame.inv[j].pc \notin {"idle", "done"}

\* invocation i returns out
Returned(i, inv, out) == [inv EXCEPT !.pc = "done", !.result = Some(out)]

\* the server hands the request's AdmissionReview to the AdmitFunc; order is
\* the order in which this invocation's range visits requiredAnnotations
FrameCall(i, review, order) ==
    /\ frame.fn # ""
    /\ frame.inv[i].pc = "idle"
    /\ frame' = [frame EXCEPT !.mem[ReviewOf(i)] = review,
                              !.mem0[ReviewOf(i)] = review,
                              !.overlapped = @ \/ OthersRunning(i),
                              !.inv[i] = [@ EXCEPT !.pc = "decode", !.order = order]]
    /\ UNCHANGED nonFrameVars

\* kind := admissionReview.Request.Kind.Kind, the switch on kind and
\* deserializer.Decode(admissionReview.Request.Object.Raw, nil, &obj)
FrameDecode(i) ==
    /\ frame.inv[i].pc = "decode"
    /\ LET review == frame.mem[ReviewOf(i)]
           kind == review.Request[1].Kind
           d == DecodeObject(review.Request[1].Object)
           resp == newDefaultDenyResponse
           inv == frame.inv[i]
           continue == [inv EXCEPT !.pc = "ignored", !.obj = Some(d.obj)]
       IN  frame' = [frame EXCEPT !.inv[i] =
                CASE frame.fn = "DenyIngresses" ->
                        IF kind # "Ingress"
                        THEN Returned(i, inv, [resp |-> Some([resp EXCEPT !.Allowed = TRUE]), err |-> None])
                        ELSE IF ~d.ok
                        THEN Returned(i, inv, [resp |-> None, err |-> Some(d.err)])
                        ELSE continue
                  [] frame.fn = "DenyPublicLoadBalancers" ->
                        IF ~d.ok
                        THEN Returned(i, inv, [resp |-> None, err |-> Some(d.err)])
                        ELSE IF kind # "Service" \/ d.obj.SpecType # "LoadBalancer"
                        THEN Returned(i, inv,
                                [resp |-> Some([resp EXCEPT
                                    !.Allowed = TRUE,
                                    !.Result = Some([Message |-> "DenyPublicLoadBalancers received a non-LoadBalancer type ("
                                                                 \o d.obj.SpecType \o ")"])]),
                                 err |-> None])
                        ELSE continue
                  [] frame.fn = "EnforcePodAnnotations" ->
                        IF ~IsSupportedKind(kind)
                        THEN Returned(i, inv, [resp |-> None, err |-> Some(unsupportedKindError \o " " \o kind)])
                        ELSE IF ~d.ok
                        THEN Returned(i, inv, [resp |-> None, err |-> Some(d.err)])
                        ELSE continue
                  [] OTHER ->
                        IF kind # "Pod"
                        THEN Returned(i, inv,
                                [resp |-> Some([resp EXCEPT
                                    !.Allowed = TRUE,
                                    !.Result = Some([Message |-> "object was not a pod, " \o kind])]),
                                 err |-> None])
                        ELSE IF ~d.ok
                        THEN Returned(i, inv, [resp |-> None, err |-> Some(d.err)])
                        ELSE continue]
    /\ UNCHANGED nonFrameVars

\* the namespace and annotations invocation i extracted from its object
FrameMeta(i) ==
    ExtractMetadata(IF frame.fn = "EnforcePodAnnotations"
                    THEN frame.mem[ReviewOf(i)].Request[1].Kind ELSE "Pod",
                    frame.inv[i].obj[1])

\* for _, ns := range ignoredNamespaces: the whitelisted namespaces
FrameIgnored(i) ==
    /\ frame.inv[i].pc = "ignored"
    /\ LET inv == frame.inv[i]
           meta == FrameMeta(i)
           kind == frame.mem[ReviewOf(i)].Request[1].Kind
       IN  frame' = [frame EXCEPT !.inv[i] =
                IF IsIgnoredNamespace(meta.namespace, frame.mem["ignoredNamespaces"])
                THEN Returned(i, inv, [resp |-> Some(Whitelisted(newDefaultDenyResponse, meta.namespace)),
                                       err |-> None])
                ELSE IF frame.fn = "DenyIngresses"
                THEN Returned(i, inv, [resp |-> None,
                                       err |-> Some(kind \o " objects cannot be deployed to this cluster")])
                ELSE [inv EXCEPT
                        !.pc = CASE frame.fn = "DenyPublicLoadBalancers" -> "table"
                                 [] frame.fn = "EnforcePodAnnotations" -> "range"
                                 [] OTHER -> "patch",
                        !.idx = 1]]
    /\ UNCHANGED nonFrameVars

\* expectedAnnotations, ok := ilbAnnotations[provider], and the range of
\* ensureHasAnnotations over it begins
FrameTable(i) ==
    /\ frame.inv[i].pc = "table"
    /\ LET inv == frame.inv[i]
           provider == frame.mem["provider"]
           table == frame.mem["ilbAnnotations"]
       IN  IF provider \notin DOMAIN table
           THEN frame' = [frame EXCEPT !.inv[i] =
                    Returned(i, inv,
                        [resp |-> Some(newDefaultDenyResponse),
                         err |-> Some("internal load balancer annotations for the given provider ("
                                      \o FormatQ(provider) \o ") are not supported")])]
           ELSE \E order \in Orders(table[provider]) :
                    frame' = [frame EXCEPT !.inv[i] =
                                [inv EXCEPT !.pc = "range", !.order = order]]
    /\ UNCHANGED nonFrameVars

\* one iteration of the range over the required annotations: of
\* EnforcePodAnnotations over requiredAnnotations, of ensureHasAnnotations
\* over the provider's annotations; a store goes to missing[requiredKey]
FrameRange(i) ==
    /\ frame.inv[i].pc = "range"
    /\ frame.inv[i].idx <= Len(frame.inv[i].order)
    /\ LET inv == frame.inv[i]
           requiredKey == inv.order[inv.idx]
           existing == Lookup(FrameMeta(i).annotations, requiredKey)
           next == [inv EXCEPT !.idx = @ + 1]
           store(v) == [frame EXCEPT !.mem[MissingMap(i)] = (requiredKey :> v) @@ @,
                                     !.inv[i] = next]
       IN  IF frame.fn = "EnforcePodAnnotations"
           THEN LET matchFunc == frame.mem["requiredAnnotations"][requiredKey]
                IN  IF matchFunc = "nil"
                    THEN frame' = [frame EXCEPT !.inv[i] =
                            Returned(i, inv,
                                [resp |-> Some(newDefaultDenyResponse),
                                 err |-> Some("cannot validate annotations (" \o requiredKey
                                              \o ") with a nil matchFunc")])]
                    ELSE IF ~existing.ok
                    THEN frame' = store("key was not found")
                    ELSE IF ~Matches(matchFunc, existing.val)
                    THEN frame' = store("value did not match")
                    ELSE frame' = [frame EXCEPT !.inv[i] = next]
           ELSE LET requiredVal == frame.mem["ilbAnnotations"][frame.mem["provider"]][requiredKey]
                IN  IF ~existing.ok \/ existing.val # requiredVal
                    THEN frame' = store(requiredVal)
                    ELSE frame' = [frame EXCEPT !.inv[i] = next]
    /\ UNCHANGED nonFrameVars

\* after the range: if len(missing) > 0 the request is denied, else allowed
FrameRangeDone(i) ==
    /\ frame.inv[i].pc = "range"
    /\ frame.inv[i].idx > Len(frame.inv[i].order)
    /\ LET inv == frame.inv[i]
           missing == frame.mem[MissingMap(i)]
           kind == frame.mem[ReviewOf(i)].Request[1].Kind
           resp == newDefaultDenyResponse
       IN  frame' = [frame EXCEPT !.inv[i] =
                IF DOMAIN missing = {}
                THEN Returned(i, inv, [resp |-> Some([resp EXCEPT !.Allowed = TRUE]), err |-> None])
                ELSE IF frame.fn = "EnforcePodAnnotations"
                THEN Returned(i, inv, [resp |-> Some(resp),
                                       err |-> Some(podDeniedError \o " " \o FormatMap(missing))])
                ELSE Returned(i, inv, [resp |-> Some(resp),
                                       err |-> Some(kind \o " objects of type: LoadBalancer without an internal-only annotation cannot be deployed to this cluster")])]
    /\ UNCHANGED nonFrameVars

\* AddAutoscalerAnnotation: the check for the key and GetPatch(pod), whose
\* updateAnnotation rebinds its own target and stores into no map
FramePatch(i) ==
    /\ frame.inv[i].pc = "patch"
    /\ LET inv == frame.inv[i]
           pod == inv.obj[1]
           resp == newDefaultDenyResponse
       IN  frame' = [frame EXCEPT !.inv[i] =
                IF HasAutoscalerKey(pod.Annotations)
                THEN Returned(i, inv,
                        [resp |-> Some([resp EXCEPT
                            !.Allowed = TRUE,
                            !.Result = Some([Message |-> "object already has auto scaler annotation"])]),
                         err |-> None])
                ELSE Returned(i, inv,
                        [resp |-> Some([UID |-> "", Allowed |-> TRUE,
                                        Result |-> Some([Message |-> "Updating annotations"]),
                                        Patch |-> GetPatch(pod), PatchType |-> Some("JSONPatch")]),
                         err |-> None])]
    /\ UNCHANGED nonFrameVars

InitFrame == Init /\ ah.LimitBytes = 0

NextFrame ==
    \/ \E fn \in FrameFns, l \in FrameIgnoredLists, m \in FrameRequired \cup {<<>>},
          p \in FrameProviders : FrameConstruct(fn, l, m, p)
    \/ \E i \in 1..MaxInvocations :
            /\ frame.fn # ""
            /\ \E review \in FrameReviews(frame.fn) :
                    \E order \in Orders(frame.mem["requiredAnnotations"]) : FrameCall(i, review, order)
    \/ \E i \in 1..MaxInvocations : FrameDecode(i)
    \/ \E i \in 1..MaxInvocations : FrameIgnored(i)
    \/ \E i \in 1..MaxInvocations : FrameTable(i)
    \/ \E i \in 1..MaxInvocations : FrameRange(i)
    \/ \E i \in 1..MaxInvocations : FrameRangeDone(i)
    \/ \E i \in 1..MaxInvocations : FramePatch(i)

SpecFrame == InitFrame /\ [][NextFrame]_vars

----------------------------------------------------------------------------
(* Observations used by the properties of the handler *)

Did(s) == \E i \in DOMAIN steps : steps[i] = s

Done == pc = "done"

\* the AdmissionReview the client parses out of the one body written
Outgoing == JSONUnmarshal(w.body[1])

OutResponse == Outgoing.Response[1]

BodyWritten == Len(w.body) = 1 /\ DOMAIN w.body[1] # {}

WellFormed ==
    /\ BodyWritten
    /\ Outgoing.Kind = "AdmissionReview"
    /\ Outgoing.APIVersion # ""
    /\ Outgoing.Response # None

ReadFailed == Did("read") /\ r.readFails

EmptyBody == Did("read") /\ ~r.readFails /\ Len(body) = 0

DecodeFailed == Did("decode") /\ ~Decode(body).ok

MissingRequest == Did("validate") /\ incomingReview.Request = None

AdmitErred == Did("admit") /\ admitted.err # None

AdmitNil == Did("admit") /\ admitted.err = None /\ admitted.resp = None

AdmitSucceeded == Did("admit") /\ admitted.err = None /\ admitted.resp # None

MarshalFailure == "review" \in marshalFailed

Failure ==
    ReadFailed \/ EmptyBody \/ DecodeFailed \/ MissingRequest \/ AdmitErred \/ AdmitNil \/ MarshalFailure

Step ==
    \/ Begin
    \/ ReadBody
    \/ DecodeReview
    \/ ValidateRequest
    \/ \E out \in AdmitOutcomes : InvokeAdmitFunc(out)
    \/ \E ok \in BOOLEAN : MarshalReview(ok)
    \/ WriteReview
    \/ \E ok \in BOOLEAN : HandleError(ok)

----------------------------------------------------------------------------
(* Properties *)

\* C1: whenever the inbound AdmissionReview carries a Request, the review
\* written has response.uid equal to the request's UID, on the success path
\* and on every denial/error path alike.
C1_UIDPropagated ==
    (Done /\ incomingReview.Request # None /\ BodyWritten)
        => (Outgoing.Response # None /\ OutResponse.UID = incomingReview.Request[1].UID)

\* C2: every failure path answers HTTP 200 with a non-empty, well-formed
\* AdmissionReview whose response.allowed is false; a status other than 200
\* occurs only when the error review itself could not be marshalled.
C2_FailureAnswered200Denied ==
    /\ (Done /\ Failure /\ "error" \notin marshalFailed)
          => (w.status = <<StatusOK>> /\ WellFormed /\ OutResponse.Allowed = FALSE)
    /\ (Done /\ w.status # <<StatusOK>>) => "error" \in marshalFailed

C2_Witness ==
    Done /\ EmptyBody /\ w.status = <<StatusOK>> /\ WellFormed /\ ~OutResponse.Allowed

\* C3: the response has allowed=true only if the AdmitFunc returned a non-nil
\* response with Allowed=true and a nil error; an AdmitFunc error always
\* gives allowed=false, whatever the Allowed of the response returned with it.
C3_FailClosed ==
    /\ (Done /\ BodyWritten /\ Outgoing.Response # None /\ OutResponse.Allowed)
          => (AdmitSucceeded /\ admitted.resp[1].Allowed)
    /\ (Done /\ AdmitErred /\ BodyWritten) => (Outgoing.Response # None /\ ~OutResponse.Allowed)

C3_Witness ==
    /\ Done /\ AdmitErred /\ admitted.resp # None /\ admitted.resp[1].Allowed
    /\ BodyWritten /\ ~OutResponse.Allowed

\* C4: each invocation of ServeHTTP writes exactly one status and at most one
\* body, nothing is written before the invocation's last step, and no
\* invocation stops before it has written its response.
C4_ExactlyOneResponse ==
    /\ Len(w.status) <= 1
    /\ Len(w.body) <= 1
    /\ Len(w.body) <= Len(w.status)
    /\ Done => Len(w.status) = 1
    /\ pc \notin {"idle", "done"} => (w.status = <<>> /\ w.body = <<>> /\ ENABLED Step)

C4_Witness ==
    Done /\ AdmitErred /\ steps[Len(steps)] = "error" /\ w.status = <<StatusOK>> /\ Len(w.body) = 1

\* C5: within one request the AdmitFunc is invoked at most once and only after
\* the body was read, decoded and found to hold a Request; when an earlier
\* step fails it is never invoked; nothing is written to the response before
\* the AdmitFunc has returned.
C5_StepOrder ==
    /\ Cardinality({i \in DOMAIN steps : steps[i] = "admit"}) <= 1
    /\ (pc = "admit" \/ Did("admit"))
          => /\ SubSeq(steps, 1, 3) = <<"read", "decode", "validate">>
             /\ ~r.readFails
             /\ Len(body) > 0
             /\ Decode(body).ok
             /\ incomingReview = Decode(body).review
             /\ incomingReview.Request # None
    /\ (ReadFailed \/ EmptyBody \/ DecodeFailed \/ MissingRequest) => ~Did("admit")
    /\ pc = "admit" => (w.status = <<>> /\ w.body = <<>>)
    /\ (w.status # <<>> \/ w.body # <<>>)
          => (Did("admit") \/ ReadFailed \/ EmptyBody \/ DecodeFailed \/ MissingRequest)

C5_Witness ==
    Done /\ steps = <<"read", "decode", "validate", "admit", "marshal", "write">>

\* C6: every failure path is classified as an AdmissionError and writes at
\* least one entry to the handler's Logger before the response is sent
\* (stated for the requests whose error review could be marshalled and sent).
C6_FailuresLogged ==
    (Done /\ Failure /\ "error" \notin marshalFailed)
        => (err # None /\ err[1].type = "AdmissionError" /\ Len(logger) >= 1)

\* C7: a request whose body is longer than LimitBytes is rejected and is never
\* decoded or passed to the AdmitFunc, neither in full nor as a prefix.
C7_OversizedRejected ==
    (pc \notin {"idle", "ServeHTTP"} /\ Len(r.Body) > ah.LimitBytes)
        => /\ ~Did("decode")
           /\ ~Did("admit")
           /\ (Done /\ BodyWritten) => (Outgoing.Response # None /\ ~OutResponse.Allowed)

\* C8 (as claimed): when the AdmitFunc returns an error with message m, the
\* denial's result.message is m.
C8_MessageIsFunctionMessage ==
    (Done /\ AdmitErred /\ BodyWritten)
        => (OutResponse.Result # None /\ OutResponse.Result[1].Message = admitted.err[1])

\* C8 (amended): when the AdmitFunc returns an error with message m, the
\* denial's result.message is the AdmissionError text that embeds m:
\* "admission error: m (allowed: false)".
C8_MessageWrapsFunctionMessage ==
    (Done /\ AdmitErred /\ BodyWritten)
        => /\ OutResponse.Result # None
           /\ OutResponse.Result[1].Message
                = "admission error: " \o admitted.err[1] \o " (allowed: false)"

C8_Witness ==
    /\ Done /\ AdmitErred /\ BodyWritten
    /\ admitted.err = Some("Ingress objects cannot be deployed to this cluster")

\* C9: on the success path the handler answers HTTP 200 with a review whose
\* response is the AdmitFunc's response with only the UID changed.
C9_SuccessPassThrough ==
    (Done /\ AdmitSucceeded /\ ~MarshalFailure)
        => /\ w.status = <<StatusOK>>
           /\ WellFormed
           /\ OutResponse = [admitted.resp[1] EXCEPT !.UID = incomingReview.Request[1].UID]
           /\ OutResponse.Allowed = admitted.resp[1].Allowed
           /\ OutResponse.Result = admitted.resp[1].Result
           /\ OutResponse.Patch = admitted.resp[1].Patch
           /\ OutResponse.PatchType = admitted.resp[1].PatchType

C9_Witness ==
    /\ Done /\ AdmitSucceeded /\ ~MarshalFailure
    /\ admitted.resp[1].UID = "stale" /\ incomingReview.Request[1].UID = "uid-1"
    /\ admitted.resp[1].Patch # <<>> /\ admitted.resp[1].PatchType # None
    /\ admitted.resp[1].Result = Some([Message |-> "fine"])
    /\ OutResponse.UID = "uid-1"

----------------------------------------------------------------------------
(* Properties of the built-in AdmitFuncs (SpecAdmit) *)

CalledDenyIngresses == afIn # None /\ afIn[1].fn = "DenyIngresses"

InRequest == afIn[1].review.Request[1]

InObject == DecodeObject(InRequest.Object)

OutAllowed == afOut[1].err = None /\ afOut[1].resp # None /\ afOut[1].resp[1].Allowed

\* C10: DenyIngresses allows iff the Kind is not "Ingress" or the Ingress's
\* namespace equals an entry of ignoredNamespaces exactly (case-sensitively);
\* every other Ingress object is denied with the fixed message; a Kind other
\* than Ingress is allowed for any allow-list and any payload.
C10_DenyIngresses ==
    CalledDenyIngresses
        => /\ OutAllowed <=>
                \/ InRequest.Kind # "Ingress"
                \/ /\ InObject.ok
                   /\ InObject.obj.Namespace \in {afIn[1].ignoredNamespaces[i] : i \in DOMAIN afIn[1].ignoredNamespaces}
           /\ (InRequest.Kind = "Ingress" /\ InObject.ok /\ ~OutAllowed)
                => afOut[1] = [resp |-> None, err |-> Some("Ingress objects cannot be deployed to this cluster")]
           /\ InRequest.Kind # "Ingress" => OutAllowed

C10_Witness ==
    /\ CalledDenyIngresses
    /\ InRequest.Kind = "Ingress" /\ InObject.ok /\ InObject.obj.Namespace = "ISTIO-SYSTEM"
    /\ afIn[1].ignoredNamespaces = <<"istio-system">>
    /\ afOut[1].err = Some("Ingress objects cannot be deployed to this cluster")

CalledDenyPublicLoadBalancers == afIn # None /\ afIn[1].fn = "DenyPublicLoadBalancers"

InIgnored == {afIn[1].ignoredNamespaces[i] : i \in DOMAIN afIn[1].ignoredNamespaces}

HasAnnotation(annotations, k, v) ==
    annotations # None /\ k \in DOMAIN annotations[1] /\ annotations[1][k] = v

\* C11: for Kind "Service" (with a payload that decodes), DenyPublicLoadBalancers
\* allows iff spec.type is not "LoadBalancer", or the namespace is in
\* ignoredNamespaces, or the annotations hold the exact key/value pair
\* registered for the configured provider; another provider's pair, a
\* missing key or a different value denies.
C11_DenyPublicLoadBalancers ==
    (CalledDenyPublicLoadBalancers /\ InRequest.Kind = "Service" /\ InObject.ok)
        => (OutAllowed <=>
                \/ InObject.obj.SpecType # "LoadBalancer"
                \/ InObject.obj.Namespace \in InIgnored
                \/ /\ afIn[1].provider \in {GCP, Azure, AWS, OpenStack}
                   /\ \A k \in DOMAIN ilbAnnotations[afIn[1].provider] :
                        HasAnnotation(InObject.obj.Annotations, k, ilbAnnotations[afIn[1].provider][k]))

C11_Witness ==
    /\ CalledDenyPublicLoadBalancers
    /\ InRequest.Kind = "Service" /\ InObject.ok
    /\ InObject.obj.SpecType = "LoadBalancer"
    /\ InObject.obj.Namespace \notin InIgnored
    /\ afIn[1].provider = Azure
    /\ InObject.obj.Annotations = Some(ilbAnnotations[AWS])
    /\ afOut[1].resp # None /\ ~afOut[1].resp[1].Allowed
    /\ afOut[1].err = Some("Service objects of type: LoadBalancer without an internal-only annotation cannot be deployed to this cluster")

\* C12: DenyPublicLoadBalancers allows every request whose Kind is not
\* "Service", whatever the object payload is, a payload that does not decode
\* as a Service included.
C12_NonServiceAllowed ==
    (CalledDenyPublicLoadBalancers /\ InRequest.Kind # "Service") => OutAllowed

CalledEnforcePodAnnotations == afIn # None /\ afIn[1].fn = "EnforcePodAnnotations"

SupportedKinds == {"Pod", "Deployment", "StatefulSet", "DaemonSet", "Job"}

ControllerKinds == SupportedKinds \ {"Pod"}

InRequired == afIn[1].requiredAnnotations

NoNilPredicate == \A k \in DOMAIN InRequired : InRequired[k] # "nil"

\* every required key is present in annotations with a value its predicate accepts
Satisfies(annotations) ==
    \A k \in DOMAIN InRequired :
        /\ annotations # None
        /\ k \in DOMAIN annotations[1]
        /\ Matches(InRequired[k], annotations[1][k])

\* the annotations the decision is about: the Pod's own, a controller's template's
Evaluated ==
    IF InRequest.Kind = "Pod" THEN InObject.obj.Annotations ELSE InObject.obj.Template.Annotations

\* the violating keys of the evaluated annotations, each with its mark
Violations ==
    [k \in {k \in DOMAIN InRequired :
                ~(/\ Evaluated # None
                  /\ k \in DOMAIN Evaluated[1]
                  /\ Matches(InRequired[k], Evaluated[1][k]))}
        |-> IF Evaluated # None /\ k \in DOMAIN Evaluated[1]
            THEN "value did not match" ELSE "key was not found"]

\* the review of the call with the outer object's annotations removed
WithoutOuterAnnotations ==
    [afIn[1].review EXCEPT
        !.Request = Some([InRequest EXCEPT
                            !.Object = <<ObjectBytes([InObject.obj EXCEPT !.Annotations = None])>>])]

\* C13: for the controller kinds Deployment, StatefulSet, DaemonSet and Job
\* outside the ignored namespaces, EnforcePodAnnotations evaluates the pod
\* template's annotations: an object whose outer metadata carries every
\* required annotation but whose template lacks one is denied, and the
\* outcome is the same without the outer annotations.
C13_TemplateAnnotationsDecide ==
    (/\ CalledEnforcePodAnnotations
     /\ InRequest.Kind \in ControllerKinds
     /\ InObject.ok
     /\ InObject.obj.Namespace \notin InIgnored
     /\ NoNilPredicate)
        => /\ (Satisfies(InObject.obj.Annotations) /\ ~Satisfies(InObject.obj.Template.Annotations))
                => ~OutAllowed
           /\ afOut[1] = EnforcePodAnnotations(afIn[1].ignoredNamespaces, InRequired, afIn[1].order,
                                               WithoutOuterAnnotations)

\* C14: an object of a supported Kind whose namespace is listed in
\* ignoredNamespaces is allowed by EnforcePodAnnotations whatever its
\* annotations are.
C14_IgnoredNamespaceAllowed ==
    (/\ CalledEnforcePodAnnotations
     /\ InRequest.Kind \in SupportedKinds
     /\ InObject.ok
     /\ InObject.obj.Namespace \in InIgnored)
        => OutAllowed

\* C15: for a supported Kind outside the ignored namespaces and with no nil
\* predicate, EnforcePodAnnotations allows iff every required key is present
\* in the evaluated annotations with an accepted value; the one error message
\* of a denial lists exactly the violating keys, each with its mark.
C15_AllViolationsReported ==
    (/\ CalledEnforcePodAnnotations
     /\ InRequest.Kind \in SupportedKinds
     /\ InObject.ok
     /\ InObject.obj.Namespace \notin InIgnored
     /\ NoNilPredicate)
        => /\ OutAllowed <=> Satisfies(Evaluated)
           /\ ~OutAllowed => afOut[1].err = Some(podDeniedError \o " " \o FormatMap(Violations))

\* C16: EnforcePodAnnotations denies every request whose Kind is not Pod,
\* Deployment, StatefulSet, DaemonSet or Job with the "not supported" error
\* naming the Kind, whatever the annotations, the namespace and the
\* ignoredNamespaces are.
C16_UnsupportedKindDenied ==
    (CalledEnforcePodAnnotations /\ InRequest.Kind \notin SupportedKinds)
        => afOut[1] = [resp |-> None,
                       err |-> Some("the submitted Kind is not supported by this admission handler: "
                                    \o InRequest.Kind)]

C16_Witness ==
    /\ CalledEnforcePodAnnotations
    /\ InRequest.Kind = "Service"
    /\ InObject.ok
    /\ InObject.obj.Namespace \in InIgnored
    /\ DOMAIN InRequired # {} /\ NoNilPredicate /\ Satisfies(InObject.obj.Annotations)
    /\ afOut[1].resp = None
    /\ afOut[1].err = Some("the submitted Kind is not supported by this admission handler: Service")

\* C17: configuration errors are denials with their own message: a
\* LoadBalancer Service outside the ignored namespaces under a provider
\* outside {GCP, Azure, AWS, OpenStack} is denied with the unsupported-provider
\* error; a supported-Kind object outside the ignored namespaces under a nil
\* predicate is denied with the nil-matchFunc error, whatever its annotations
\* and the order in which the keys are visited.
C17_ConfigurationErrors ==
    /\ (/\ CalledDenyPublicLoadBalancers
        /\ InRequest.Kind = "Service"
        /\ InObject.ok
        /\ InObject.obj.SpecType = "LoadBalancer"
        /\ InObject.obj.Namespace \notin InIgnored
        /\ afIn[1].provider \notin {GCP, Azure, AWS, OpenStack})
            => /\ ~OutAllowed
               /\ afOut[1].err = Some("internal load balancer annotations for the given provider ("
                                      \o FormatQ(afIn[1].provider) \o ") are not supported")
    /\ (/\ CalledEnforcePodAnnotations
        /\ InRequest.Kind \in SupportedKinds
        /\ InObject.ok
        /\ InObject.obj.Namespace \notin InIgnored
        /\ ~NoNilPredicate)
            => /\ ~OutAllowed
               /\ \E k \in DOMAIN InRequired :
                    /\ InRequired[k] = "nil"
                    /\ afOut[1].err = Some("cannot validate annotations (" \o k \o ") with a nil matchFunc")

CalledAddAutoscalerAnnotation == afIn # None /\ afIn[1].fn = "AddAutoscalerAnnotation"

\* the response carries a patch
Patched == afOut[1].resp # None /\ afOut[1].resp[1].Patch # <<>>

\* the operations of the JSON patch of the response
PatchOps == afOut[1].resp[1].Patch[1].v

\* the Pod's annotations lack the safe-to-evict key
LacksKey ==
    \/ InObject.obj.Annotations = None
    \/ clusterAutoScalerAnnotationKey \notin DOMAIN InObject.obj.Annotations[1]

\* op sets the safe-to-evict key to "true"
SetsKeyTrue(op) ==
    \/ /\ op.Path = "/metadata/annotations"
       /\ op.Value = (clusterAutoScalerAnnotationKey :> "true")
    \/ /\ op.Path = "/metadata/annotations/" \o clusterAutoScalerAnnotationKey
       /\ op.Value = "true"

\* C18: AddAutoscalerAnnotation always allows (a payload that decodes); the
\* response carries a patch iff the request is a Pod outside the ignored
\* namespaces that lacks the safe-to-evict key, and then the patch sets the
\* key to "true" and PatchType is JSONPatch.
C18_AddAutoscalerAnnotation ==
    (CalledAddAutoscalerAnnotation /\ (InRequest.Kind = "Pod" => InObject.ok))
        => /\ OutAllowed
           /\ Patched <=> /\ InRequest.Kind = "Pod"
                          /\ InObject.obj.Namespace \notin InIgnored
                          /\ LacksKey
           /\ Patched => /\ afOut[1].resp[1].PatchType = Some("JSONPatch")
                         /\ Len(PatchOps) = 1
                         /\ SetsKeyTrue(PatchOps[1])

C18_Witness ==
    /\ CalledAddAutoscalerAnnotation
    /\ InRequest.Kind = "Pod" /\ InObject.ok
    /\ InObject.obj.Namespace \notin InIgnored
    /\ InObject.obj.Annotations = Some(clusterAutoScalerAnnotationKey :> "")
    /\ OutAllowed /\ ~Patched

\* C19: the patch of AddAutoscalerAnnotation matches the Pod's shape: the
\* "add" of the whole map at /metadata/annotations only when the Pod has no
\* annotation map, and an operation on the single key inside the map when the
\* Pod has an annotation map lacking the key.
C19_PatchMatchesShape ==
    (CalledAddAutoscalerAnnotation /\ Patched)
        => \A i \in DOMAIN PatchOps :
            /\ (PatchOps[i].Op = "add" /\ PatchOps[i].Path = "/metadata/annotations")
                    => InObject.obj.Annotations = None
            /\ InObject.obj.Annotations # None
                    => PatchOps[i].Path = "/metadata/annotations/" \o clusterAutoScalerAnnotationKey

AnyCall == afIn # None /\ afOut # None

\* C20: every built-in AdmitFunc starts from a response with Allowed=false,
\* and none returns a non-nil error together with a response whose Allowed is
\* true: an error comes with a nil response or with Allowed=false.
C20_DenyByDefault ==
    AnyCall
        => /\ ~newDefaultDenyResponse.Allowed
           /\ afOut[1].err # None
                => (afOut[1].resp = None \/ ~afOut[1].resp[1].Allowed)

C20_Witness ==
    /\ CalledEnforcePodAnnotations
    /\ afOut[1].err # None
    /\ afOut[1].resp # None
    /\ ~afOut[1].resp[1].Allowed

----------------------------------------------------------------------------
(* Properties of the AdmissionServer (SpecServer, SpecServerFair) *)

C22_GracePeriodHonoured ==
    shut["run"].pc # "idle"
        => /\ ~srv.listening
           /\ shut["run"].gaveUp => shut["run"].elapsed >= as[1].GracePeriod

ListenerFailed == lis.pc = "sending"

NoSignalNoCancel == signals = 0 /\ ~ctxDone

\* C23: when the listener fails with an error e other than server-closed and
\* no signal and no cancellation occurs, Run eventually returns exactly e
\* and has not invoked the graceful shutdown.
C23_ListenerErrorReturned ==
    (ListenerFailed /\ NoSignalNoCancel)
        ~> \/ /\ run.pc = "returned"
              /\ run.result = lis.err
              /\ run.result \in {Some(BindError), Some(NetworkError)}
              /\ shut["run"].pc = "idle"
           \/ ~NoSignalNoCancel

C23_Witness ==
    /\ run.pc = "returned"
    /\ run.result = Some(NetworkError)
    /\ NoSignalNoCancel
    /\ shut["run"].pc = "idle"

\* Stop() has been called, or the context is cancelled and Run's shutdown has run
Closed == shut["stop"].pc # "idle" \/ (ctxDone /\ shut["run"].pc # "idle")

\* C24: after Stop(), or after the cancellation of Run's context and the
\* shutdown, the server stays closed: it is shutting down for good, accepts
\* no connection, and every later ListenAndServe fails at once with the
\* server-closed error.
C24_PermanentlyClosed ==
    [][Closed
        => /\ srv.inShutdown /\ srv'.inShutdown
           /\ ~srv'.listening
           /\ srv'.inFlight <= srv.inFlight
           /\ listenAgain' # listenAgain => listenAgain' = Some(ErrServerClosed)
           /\ (lis.pc = "listen" /\ lis' # lis) => lis'.pc = "exited"]_vars

C24_Witness ==
    /\ shut["stop"].pc # "idle"
    /\ listenAgain = Some(ErrServerClosed)

\* request i is about to read ah.deserializer
ReadsDeserializer(i) == race.pcs[i] \in {"check_deserializer", "decode"}

\* request i is about to store, or is storing, ah.deserializer
WritesDeserializer(i) == race.pcs[i] \in {"write_deserializer", "write_deserializer_data"}

\* C25: in every interleaving of concurrent ServeHTTP calls the decoder is
\* the only handler field request handling writes, it is written at most
\* once, and no request reads it while another request writes it.
C25_DecoderInitializedOnce ==
    /\ race.writes.LimitBytes = 0
    /\ race.writes.deserializer <= 1
    /\ \A i, j \in 1..MaxRequests :
            i # j => ~(WritesDeserializer(i) /\ ReadsDeserializer(j))

\* what the AdmitFunc returns for invocation i's request when invoked alone
\* on the configuration it was constructed with
Alone(i) ==
    LET ignoredNamespaces == frame.mem0["ignoredNamespaces"]
        review == frame.mem0[ReviewOf(i)]
    IN  CASE frame.fn = "DenyIngresses" -> DenyIngresses(ignoredNamespaces, review)
          [] frame.fn = "DenyPublicLoadBalancers" ->
                DenyPublicLoadBalancers(ignoredNamespaces, frame.mem0["provider"], review)
          [] frame.fn = "EnforcePodAnnotations" ->
                EnforcePodAnnotations(ignoredNamespaces, frame.mem0["requiredAnnotations"],
                                      frame.inv[i].order, review)
          [] OTHER -> AddAutoscalerAnnotation(ignoredNamespaces, review)

\* C26: the built-in AdmitFuncs never modify shared state: the captured
\* configuration, the provider annotation table and the inbound
\* AdmissionReview stay as they were, and every invocation, however
\* interleaved with others, returns what the function returns alone.
C26_SharedStateUnchanged ==
    frame.fn # ""
        => /\ \A loc \in SharedLocations : frame.mem[loc] = frame.mem0[loc]
           /\ \A i \in 1..MaxInvocations :
                /\ frame.mem[ReviewOf(i)] = frame.mem0[ReviewOf(i)]
                /\ frame.inv[i].pc = "done" => frame.inv[i].result = Some(Alone(i))

C26_Witness ==
    /\ frame.fn = "EnforcePodAnnotations"
    /\ frame.overlapped
    /\ \A i \in 1..MaxInvocations : frame.inv[i].pc = "done"
    /\ \E i, j \in 1..MaxInvocations :
            /\ frame.inv[i].result[1].err = None
            /\ frame.inv[j].result[1].err # None
            /\ DOMAIN frame.mem[MissingMap(j)] # {}

\* the status of the response the client receives: the one fixed by the
\* first WriteHeader or Write, 200 if the handler wrote nothing
StatusSent == IF mw.under.status = None THEN StatusOK ELSE mw.under.status[1]

\* the entries with an error and a stack trace
ErrorEntries == {i \in DOMAIN mw.log : mw.log[i].err # None /\ mw.log[i].trace # None}

Recovered == mw.pc = "done" /\ mw.panicked

\* C27 as stated: a panic of the wrapped handler does not escape, one log
\* entry with the error and a stack trace is written, and the status sent
\* is 500 wherever the panic happens.
C27_PanicAnswered500 ==
    /\ mw.pc = "panicking" => ENABLED MiddlewareRecover
    /\ Recovered => /\ Cardinality(ErrorEntries) = 1
                    /\ \A i \in ErrorEntries : mw.log[i].err = mw.panicValue
                    /\ StatusSent = StatusInternalServerError

\* the annotations the submitted Pod already had
OriginalAnnotations ==
    IF InObject.obj.Annotations = None THEN <<>> ELSE InObject.obj.Annotations[1]

\* C28: applying the patch of AddAutoscalerAnnotation to the submitted Pod
\* keeps every annotation the Pod already had: the patched annotations are
\* the original ones plus the safe-to-evict key set to "true".
C28_PatchPreservesAnnotations ==
    (CalledAddAutoscalerAnnotation /\ Patched)
        => ApplyPatch(InObject.obj.Annotations, PatchOps)
                = Some((clusterAutoScalerAnnotationKey :> "true") @@ OriginalAnnotations)

\* C29: nothing is ever sent on a channel Run has closed: the listener
\* goroutine never sends on errs after Run closed it, and no signal is
\* delivered to sigChan after Run closed it.
C29_NoSendOnClosedChannel == panics = {}

\* C30: if Stop() is called while Run is blocked serving, Run eventually
\* returns.
C30_StopEndsRun ==
    (shut["stop"].pc # "idle" /\ run.pc = "select" /\ lis.pc = "serving") ~> run.pc = "returned"

====
